---- MODULE Spec2Model ----
(***************************************************************************)
(* Model of nlp/data_access/cql_result_parser.py: the decoder of FHIR      *)
(* resources returned by the CQL engine.                                   *)
(*                                                                         *)
(* Strings that the code inspects are sequences of tokens.  A mapping key  *)
(* is the sequence of its maximal alphabetic runs ("identifier"), its      *)
(* delimiters "_" and its decimal digits, one token per digit, so that     *)
(* 'identifier_10_type' is <<"identifier","_","1","0","_","type">>.  A     *)
(* format template keeps its replacement fields "{0}", "{1}", "{2}" as     *)
(* tokens.  A timestamp string is the sequence of its characters.          *)
(*                                                                         *)
(* Values are tagged records: [t |-> "str", s |-> tokens],                 *)
(* [t |-> "num", n |-> Int], [t |-> "dt", ...] (datetime objects),         *)
(* [t |-> "map", m |-> mapping] (a nested dict), [t |-> "obj", m |-> ...]  *)
(* and [t |-> "list", l |-> ...] (raw JSON containers), [t |-> "none"].    *)
(***************************************************************************)
EXTENDS Integers, Sequences, FiniteSets, TLC

VARIABLES
    entry,          \* the call being executed and its argument
    pc,             \* position of the interpreter in the call
    todo,           \* _decode_bundle: elements of the list not yet visited
    bundled_objs,   \* _decode_bundle: the list being built
    raw,            \* _process_resource: its argument obj
    rt,             \* _process_resource: the resource type read at dispatch
    flat,           \* the mapping handed to the resource decoder
    obj,            \* the mapping being mutated in place
    calls,          \* log of the _set_list_length calls of the current decode
    stages,         \* log of the steps of the current decode
    exc,            \* the exception that ended the run, "none" if none
    result_obj,     \* the value returned to the caller
    prefix_str      \* argument of a direct _set_list_length call

vars == <<entry, pc, todo, bundled_objs, raw, rt, flat, obj, calls, stages,
          exc, result_obj, prefix_str>>

(***************************************************************************)
(* Bounds of the model.                                                    *)
(***************************************************************************)
\* longest list in a generated record
MaxLen == 2
\* longest bundle
MaxBundle == 2

(***************************************************************************)
(* Generic helpers.                                                        *)
(***************************************************************************)
None == [t |-> "none"]
Num(n) == [t |-> "num", n |-> n]
Str(s) == [t |-> "str", s |-> s]
Map(m) == [t |-> "map", m |-> m]
Obj(m) == [t |-> "obj", m |-> m]
List(l) == [t |-> "list", l |-> l]

EmptyDict == [k \in {} |-> None]

Max(S) == CHOOSE x \in S : \A y \in S : y <= x

Range(f) == {f[i] : i \in DOMAIN f}

\* dict assignment d[k] = v
Put(d, k, v) == [x \in DOMAIN d \cup {k} |-> IF x = k THEN v ELSE d[x]]

Digits == <<"0", "1", "2", "3", "4", "5", "6", "7", "8", "9">>

IsDigit(c) == \E i \in 1..10 : Digits[i] = c

DigitVal(c) == (CHOOSE i \in 1..10 : Digits[i] = c) - 1

\* str(i) for a non-negative int
RECURSIVE ToDigits(_)
ToDigits(n) == IF n < 10 THEN <<Digits[n + 1]>>
               ELSE ToDigits(n \div 10) \o <<Digits[(n % 10) + 1]>>

\* int(s) for a string of decimal digits
RECURSIVE ToInt(_)
ToInt(s) == IF s = <<>> THEN 0
            ELSE 10 * ToInt(SubSeq(s, 1, Len(s) - 1)) + DigitVal(s[Len(s)])

\* the tokens of the string whose '_'-separated parts are the elements of p
RECURSIVE T(_)
T(p) == IF Len(p) <= 1 THEN p ELSE <<p[1], "_">> \o T(Tail(p))

\* str.format: every replacement field "{k}" is replaced by args[k+1]
RECURSIVE Format(_, _)
Format(tpl, args) ==
    IF tpl = <<>> THEN <<>>
    ELSE LET h == tpl[1]
             r == Format(Tail(tpl), args)
         IN IF h = "{0}" THEN args[1] \o r
            ELSE IF h = "{1}" THEN args[2] \o r
            ELSE IF h = "{2}" THEN args[3] \o r
            ELSE <<h>> \o r

(***************************************************************************)
(* Module constants.                                                       *)
(***************************************************************************)
_KEY_DATE_TIME == <<"date", "_", "time">>
_KEY_END == <<"end">>
_KEY_END_DATE_TIME == <<"end", "_", "date", "_", "time">>
_KEY_START == <<"start">>
_STR_RESOURCE_TYPE == <<"resourceType">>

(***************************************************************************)
(* _set_list_length.                                                       *)
(***************************************************************************)
IsQuantifier(tok) == tok \in {"{0}", "{1}", "{2}"}

\* The prefix is pasted into the search pattern unescaped, so what is left
\* of a replacement field in it is read by re as a repetition count of the
\* preceding character: '_{0}' is no '_' at all, '_{1}' is one '_'.  A count
\* with nothing before it, or following another count, is an re.error.  In
\* the templates of this module a replacement field always follows '_'.
RECURSIVE CompilePrefix(_, _, _)
CompilePrefix(toks, atoms, quantified) ==
    IF toks = <<>> THEN [ok |-> TRUE, atoms |-> atoms]
    ELSE LET h == toks[1] IN
         IF IsQuantifier(h)
         THEN IF atoms = <<>> \/ quantified
              THEN [ok |-> FALSE, atoms |-> atoms]
              ELSE CompilePrefix(Tail(toks),
                       IF h = "{0}" THEN SubSeq(atoms, 1, Len(atoms) - 1)
                       ELSE IF h = "{1}" THEN atoms
                       ELSE atoms \o <<atoms[Len(atoms)]>>,
                       TRUE)
         ELSE CompilePrefix(Tail(toks), atoms \o <<h>>, FALSE)

\* the digits matched by (?P<num>\d+): the longest run of digits from i
RECURSIVE DigitRun(_, _)
DigitRun(k, i) == IF i <= Len(k) /\ IsDigit(k[i])
                  THEN <<k[i]>> \o DigitRun(k, i + 1) ELSE <<>>

\* re.match(r'\A' + prefix + r'_(?P<num>\d+)_?', k): int(num), -1 if no match
MatchNum(atoms, k) ==
    LET n == Len(atoms) IN
    IF /\ Len(k) >= n + 2
       /\ SubSeq(k, 1, n) = atoms
       /\ k[n + 1] = "_"
       /\ IsDigit(k[n + 2])
    THEN ToInt(DigitRun(k, n + 2))
    ELSE -1

\* (variant: the count is stored as one more element of the list)
LenKeyAsElement(p, length) == p \o <<"_">> \o ToDigits(length)

\* the key the length is stored under: 'len_' + prefix_str
LenKey(p, length) == <<"len", "_">> \o p

\* (variant: the largest index itself is taken as the length)
LengthIsMax(max_num) == max_num

\* length = max_num + 1
LengthOf(max_num) == max_num + 1

\* (variant: a length of 0 is stored too)
_set_list_length_storing_zero(d, p) ==
    LET pat == CompilePrefix(p, <<>>, FALSE)
        nums == {MatchNum(pat.atoms, k) : k \in DOMAIN d} \ {-1}
    IN IF DOMAIN d # {} /\ ~pat.ok
       THEN [obj |-> d, ret |-> 0, exc |-> "re.error"]
       ELSE IF nums = {}
       THEN [obj |-> Put(d, LenKey(p, 0), Num(0)), ret |-> 0, exc |-> "none"]
       ELSE LET length == LengthOf(Max(nums))
            IN [obj |-> Put(d, LenKey(p, length), Num(length)),
                ret |-> length, exc |-> "none"]

\* _set_list_length(obj, prefix_str): the mapping after the call, the value
\* returned and the exception raised.  The pattern is compiled by the first
\* re.match, that is only when the mapping has a key.
_set_list_length(d, p) ==
    LET pat == CompilePrefix(p, <<>>, FALSE)
        nums == {MatchNum(pat.atoms, k) : k \in DOMAIN d} \ {-1}
    IN IF DOMAIN d # {} /\ ~pat.ok
       THEN [obj |-> d, ret |-> 0, exc |-> "re.error"]
       ELSE IF nums = {}
       THEN [obj |-> d, ret |-> 0, exc |-> "none"]
       ELSE LET length == LengthOf(Max(nums))
            IN [obj |-> Put(d, LenKey(p, length), Num(length)),
                ret |-> length, exc |-> "none"]

\* A decoder state: the mapping, the log of the calls, the last value
\* returned and the exception raised, after which nothing more is executed.
DState(d) == [obj |-> d, calls |-> <<>>, ret |-> 0, exc |-> "none"]

\* the decoder state after a call with prefix p that ended as r
Called(s, p, r) ==
    [obj |-> r.obj, calls |-> Append(s.calls, [prefix |-> p, ret |-> r.ret]),
     ret |-> r.ret, exc |-> r.exc]

\* the statement  ... = _set_list_length(obj, p)  inside a decoder
Call(s, p) ==
    IF s.exc # "none" THEN s ELSE Called(s, p, _set_list_length(s.obj, p))

(***************************************************************************)
(* The list-shape statements of the decoders.  After the timestamps a      *)
(* decoder is a run of statements of one form:                             *)
(*                                                                         *)
(*     count = _set_list_length(obj, p)                                    *)
(*     for i in range(count):                                              *)
(*         <for each call of the loop body, in its order>                  *)
(*         _set_list_length(obj, tpl.format(args))                         *)
(*                                                                         *)
(* where a call of the body can in turn be the head of such a loop, and    *)
(* where the loop is missing when the count is not used.  A statement is   *)
(* the record [p, body]: p is the prefix of the head call, body the        *)
(* sequence of the calls of the loop body.  A call of the body is          *)
(* [tpl, args, format, body]: the template, the arguments of .format (the  *)
(* loop index is written ARG_I, the prefix of the head call ARG_P),        *)
(* whether .format is called at all, and the body of the loop that the     *)
(* count of this call drives.                                              *)
(***************************************************************************)
ARG_I == <<"%i">>
ARG_P == <<"%p">>

\* str(i) as format argument
I(i) == ToDigits(i)

\* the arguments of .format in iteration i of the loop headed by prefix p
Args(args, i, p) ==
    [k \in 1..Len(args) |-> IF args[k] = ARG_I THEN I(i)
                            ELSE IF args[k] = ARG_P THEN p
                            ELSE args[k]]

\* the prefix that call b of the body passes in iteration i
KeyOf(b, i, p) == IF b.format THEN Format(b.tpl, Args(b.args, i, p)) ELSE b.tpl

\* the statements executed by the loop  for i in range(n)  of statement st,
\* iteration by iteration
Iterations(st, n) ==
    [x \in 1..(n * Len(st.body)) |->
        [p |-> KeyOf(st.body[((x - 1) % Len(st.body)) + 1],
                     (x - 1) \div Len(st.body), st.p),
         body |-> st.body[((x - 1) % Len(st.body)) + 1].body]]

\* the statements of w executed in order from state s (the sequence is
\* split in two to keep the evaluation shallow)
RECURSIVE Exec(_, _)

\* the loop of statement st, whose head call has ended in state r
Loop(r, st) == Exec(r, Iterations(st, r.ret))

Exec(s, w) ==
    IF w = <<>> \/ s.exc # "none" THEN s
    ELSE IF Len(w) = 1 THEN Loop(Call(s, w[1].p), w[1])
    ELSE Exec(Exec(s, SubSeq(w, 1, Len(w) \div 2)),
              SubSeq(w, (Len(w) \div 2) + 1, Len(w)))

\* a call of a loop body:  _set_list_length(obj, tpl.format(args))
Fmt(tpl, args) == [tpl |-> T(tpl), args |-> args, format |-> TRUE, body |-> <<>>]

\* a run of plain calls  _set_list_length(obj, p)  for the p of seq
Calls(seq) == [k \in 1..Len(seq) |-> [p |-> T(seq[k]), body |-> <<>>]]

\* count = _set_list_length(obj, list_field)
\* for i in range(count):
\*     for field in fields: _set_list_length(obj, tpl.format(i, field))
Indexed(list_field, tpl, fields) ==
    <<[p |-> T(list_field),
       body |-> [k \in 1..Len(fields) |-> Fmt(tpl, <<ARG_I, fields[k]>>)]]>>

\* (variant: the body formats the template with the index)
UnformattedWithIndex(list_field, tpl) ==
    <<[p |-> T(list_field), body |-> <<Fmt(tpl, <<ARG_I>>)>>]>>

\* the same loop whose body passes the template without formatting it
Unformatted(list_field, tpl) ==
    <<[p |-> T(list_field),
       body |-> <<[Fmt(tpl, <<>>) EXCEPT !.format = FALSE]>>]>>

\* count = _set_list_length(obj, list_field)
\* for i in range(count): _set_list_length(obj, tpl.format(i))
Per(list_field, tpl) ==
    <<[p |-> T(list_field), body |-> <<Fmt(tpl, <<ARG_I>>)>>]>>

(***************************************************************************)
(* _base_init and _contained_med_resource_init.                            *)
(***************************************************************************)
\* (variant: the extensions inside the inner extensions are counted too)
ExtensionFieldsDeeper(field) ==
    <<[p |-> field,
       body |->
           <<Fmt(<<"{0}", "{1}", "valueCodeableConcept", "coding">>, <<field, ARG_I>>),
             Fmt(<<"{0}", "{1}", "valueTiming", "event">>, <<field, ARG_I>>),
             Fmt(<<"{0}", "{1}", "valueTiming", "code", "coding">>, <<field, ARG_I>>),
             Fmt(<<"{0}", "{1}", "valueAddress", "line">>, <<field, ARG_I>>),
             Fmt(<<"{0}", "{1}", "valueHumanName", "{2}">>, <<field, ARG_I, <<"family">>>>),
             Fmt(<<"{0}", "{1}", "valueHumanName", "{2}">>, <<field, ARG_I, <<"given">>>>),
             Fmt(<<"{0}", "{1}", "valueHumanName", "{2}">>, <<field, ARG_I, <<"prefix">>>>),
             Fmt(<<"{0}", "{1}", "valueHumanName", "{2}">>, <<field, ARG_I, <<"suffix">>>>),
             Fmt(<<"{0}", "{1}", "valueSignature", "type", "coding">>, <<field, ARG_I>>),
             [Fmt(<<"{0}", "{1}", "extension">>, <<field, ARG_I>>) EXCEPT
                 !.body = <<Fmt(<<"{0}", "{1}", "extension">>,
                                <<ARG_P, ARG_I>>)>>]>>]>>

\* the loop over the elements of obj[field], field being 'extension' or
\* 'modifierExtension'
ExtensionFields(field) ==
    <<[p |-> field,
       body |->
           <<Fmt(<<"{0}", "{1}", "valueCodeableConcept", "coding">>, <<field, ARG_I>>),
             Fmt(<<"{0}", "{1}", "valueTiming", "event">>, <<field, ARG_I>>),
             Fmt(<<"{0}", "{1}", "valueTiming", "code", "coding">>, <<field, ARG_I>>),
             Fmt(<<"{0}", "{1}", "valueAddress", "line">>, <<field, ARG_I>>),
             Fmt(<<"{0}", "{1}", "valueHumanName", "{2}">>, <<field, ARG_I, <<"family">>>>),
             Fmt(<<"{0}", "{1}", "valueHumanName", "{2}">>, <<field, ARG_I, <<"given">>>>),
             Fmt(<<"{0}", "{1}", "valueHumanName", "{2}">>, <<field, ARG_I, <<"prefix">>>>),
             Fmt(<<"{0}", "{1}", "valueHumanName", "{2}">>, <<field, ARG_I, <<"suffix">>>>),
             Fmt(<<"{0}", "{1}", "valueSignature", "type", "coding">>, <<field, ARG_I>>),
             Fmt(<<"{0}", "{1}", "extension">>, <<field, ARG_I>>)>>]>>

_base_init ==
    Per(<<"identifier">>, <<"identifier", "{0}", "type", "coding">>)
    \o ExtensionFields(<<"extension">>)
    \o ExtensionFields(<<"modifierExtension">>)

_contained_med_resource_init ==
    Indexed(<<"contained">>, <<"contained", "{0}", "{1}">>,
            <<T(<<"code", "coding">>), T(<<"product", "form">>),
              T(<<"product", "ingredient">>), T(<<"product", "batch">>),
              T(<<"package", "container", "coding">>),
              T(<<"package", "content">>)>>)

(***************************************************************************)
(* The list shapes of the resource decoders: the part of each              *)
(* _decode_flattened_* that follows the timestamps and the two inits.      *)
(***************************************************************************)
ObservationShapes ==
    Calls(<<<<"category", "coding">>, <<"code", "coding">>, <<"performer">>,
            <<"valueCodeableConcept", "coding">>,
            <<"dataAbsentReason", "coding">>,
            <<"interpretation", "coding">>,
            <<"bodySite", "coding">>, <<"method", "coding">>>>)
    \o Per(<<"referenceRange">>,
           <<"referenceRange", "{0}", "meaning", "coding">>)
    \o Indexed(<<"component">>, <<"component", "{0}", "{1}">>,
               <<T(<<"code", "coding">>),
                 T(<<"valueCodeableConcept", "coding">>),
                 T(<<"dataAbsentReason", "coding">>),
                 T(<<"referenceRange">>)>>)

MedicationAdministrationReasons ==
    Unformatted(<<"reasonNotGiven">>, <<"reasonNotGiven", "{0}", "coding">>)
    \o Unformatted(<<"reasonGiven">>, <<"reasonGiven", "{0}", "coding">>)

MedicationAdministrationShapes ==
    MedicationAdministrationReasons
    \o Calls(<<<<"medicationCodeableConcept", "coding">>, <<"device">>,
               <<"dosage", "siteCodeableConcept", "coding">>,
               <<"dosage", "route", "coding">>,
               <<"dosage", "method", "coding">>>>)

MedicationOrderShapes ==
    Calls(<<<<"reasonEnded", "coding">>,
            <<"reasonCodeableConcept", "coding">>,
            <<"medicationCodeableConcept", "coding">>>>)
    \o Indexed(<<"dosageInstruction">>,
               <<"dosageInstruction", "{0}", "{1}">>,
               <<T(<<"additionalInstructions", "coding">>),
                 T(<<"timing", "code", "coding">>),
                 T(<<"asNeededCodeableConcept", "coding">>),
                 T(<<"siteCodeableConcept", "coding">>),
                 T(<<"route", "coding">>), T(<<"method", "coding">>)>>)
    \o Calls(<<<<"dispenseRequest", "medicationCodeableConcept", "coding">>,
               <<"substitution", "type", "coding">>,
               <<"substitution", "reason", "coding">>>>)

MedicationStatementShapes ==
    Unformatted(<<"reasonNotTaken">>, <<"reason", "{0}", "coding">>)
    \o Calls(<<<<"reasonForUseCodeableConcept", "coding">>,
               <<"supportingInformation">>,
               <<"medicationCodeableConcept", "coding">>>>)
    \o Indexed(<<"dosage">>, <<"dosage", "{0}", "{1}">>,
               <<T(<<"asNeededCodeableConcept", "coding">>),
                 T(<<"siteCodeableConcept", "coding">>),
                 T(<<"route", "coding">>), T(<<"method", "coding">>)>>)

ConditionShapes ==
    Calls(<<<<"code", "coding">>, <<"category", "coding">>,
            <<"severity", "coding">>, <<"stage", "assessment">>>>)
    \o Indexed(<<"evidence">>, <<"evidence", "{0}", "{1}">>,
               <<T(<<"code", "coding">>), T(<<"detail">>)>>)
    \o Per(<<"bodySite">>, <<"bodySite", "{0}", "coding">>)

ProcedureShapes ==
    Calls(<<<<"category", "coding">>, <<"code", "coding">>,
            <<"reasonNotPerformed", "coding">>>>)
    \o Per(<<"bodySite">>, <<"bodySite", "{0}", "coding">>)
    \o Calls(<<<<"reasonCodeableConcept", "coding">>>>)
    \o Per(<<"performer">>, <<"performer", "{0}", "role", "coding">>)
    \o Calls(<<<<"outcome", "coding">>, <<"report">>>>)
    \o Per(<<"complication">>, <<"complication", "{0}", "coding">>)
    \o Per(<<"followUp">>, <<"followUp", "{0}", "coding">>)
    \o Calls(<<<<"notes">>>>)
    \o Per(<<"focalDevice">>, <<"focalDevice", "{0}", "action", "coding">>)
    \o Calls(<<<<"used">>>>)

\* (variant: the key of the inner loop is passed without formatting it)
Indexed2SubUnformatted(list_field, tpl, fields, sub) ==
    <<[p |-> T(list_field),
       body |-> [k \in 1..Len(fields) |->
                   [Fmt(tpl, <<ARG_I, fields[k]>>) EXCEPT
                       !.body = <<[Fmt(sub, <<>>) EXCEPT !.format = FALSE]>>]]]>>

\* count = _set_list_length(obj, list_field)
\* for i in range(count):
\*     for field in fields:
\*         key_name = tpl.format(i, field)
\*         count = _set_list_length(obj, key_name)
\*         for j in range(count):
\*             _set_list_length(obj, sub.format(key_name, j))
Indexed2(list_field, tpl, fields, sub) ==
    <<[p |-> T(list_field),
       body |-> [k \in 1..Len(fields) |->
                   [Fmt(tpl, <<ARG_I, fields[k]>>) EXCEPT
                       !.body = <<Fmt(sub, <<ARG_P, ARG_I>>)>>]]]>>

\* a variant whose loop over the parts of a name leaves the suffix out
PatientShapesNoSuffix ==
    Indexed2(<<"name">>, <<"name", "{0}", "{1}">>,
             <<<<"family">>, <<"given">>, <<"prefix">>>>,
             <<"{0}", "{1}">>)
    \o Calls(<<<<"telecom">>>>)
    \o Per(<<"address">>, <<"address", "{0}", "line">>)
    \o Calls(<<<<"maritalStatus", "coding">>>>)
    \o Indexed2(<<"contact">>, <<"contact", "{0}", "{1}">>,
                <<<<"relationship">>, <<"telecom">>>>,
                <<"{0}", "{1}", "coding">>)
    \o Calls(<<<<"animal", "species", "coding">>,
               <<"animal", "breed", "coding">>,
               <<"animal", "genderStatus", "coding">>>>)
    \o Per(<<"communication">>,
           <<"communication", "{0}", "language", "coding">>)
    \o Calls(<<<<"careProvider">>, <<"link">>>>)

PatientShapes ==
    Indexed2(<<"name">>, <<"name", "{0}", "{1}">>,
             <<<<"family">>, <<"given">>, <<"prefix">>, <<"suffix">>>>,
             <<"{0}", "{1}">>)
    \o Calls(<<<<"telecom">>>>)
    \o Per(<<"address">>, <<"address", "{0}", "line">>)
    \o Calls(<<<<"maritalStatus", "coding">>>>)
    \o Indexed2(<<"contact">>, <<"contact", "{0}", "{1}">>,
                <<<<"relationship">>, <<"telecom">>>>,
                <<"{0}", "{1}", "coding">>)
    \o Calls(<<<<"animal", "species", "coding">>,
               <<"animal", "breed", "coding">>,
               <<"animal", "genderStatus", "coding">>>>)
    \o Per(<<"communication">>,
           <<"communication", "{0}", "language", "coding">>)
    \o Calls(<<<<"careProvider">>, <<"link">>>>)

(***************************************************************************)
(* Canonical timestamps: the first part of each _decode_flattened_*.       *)
(* A step state is [obj, exc]; after an exception nothing is executed.     *)
(***************************************************************************)
PState(d) == [obj |-> d, exc |-> "none"]

\* obj[k] = v
SetKey(s, k, v) ==
    IF s.exc # "none" THEN s ELSE [s EXCEPT !.obj = Put(s.obj, k, v)]

Raise(s, e) == IF s.exc # "none" THEN s ELSE [s EXCEPT !.exc = e]

\* k in v, for the value v found under a period key: "yes", "no", or the
\* exception raised (a dict is searched by key, a str for the substring,
\* anything else is not iterable)
Contains(v, k) ==
    IF v.t = "map" THEN (IF k \in DOMAIN v.m THEN "yes" ELSE "no")
    ELSE IF v.t = "str"
         THEN (IF \E i \in 1..Len(v.s) : <<v.s[i]>> = k THEN "yes" ELSE "no")
    ELSE "TypeError"

\* v[k]: the value, or the exception raised
Subscript(v, k) ==
    IF v.t = "map"
    THEN (IF k \in DOMAIN v.m THEN [exc |-> "none", v |-> v.m[k]]
          ELSE [exc |-> "KeyError", v |-> None])
    ELSE [exc |-> "TypeError", v |-> None]

\* if k in obj[period]: obj[target] = obj[period][k]
\* (target is "undefined" where the code names a variable it never defined)
IfInPeriod(s, period, k, target) ==
    IF s.exc # "none" THEN s
    ELSE LET c == Contains(s.obj[period], k) IN
         IF c = "TypeError" THEN Raise(s, "TypeError")
         ELSE IF c = "no" THEN s
         ELSE LET x == Subscript(s.obj[period], k) IN
              IF x.exc # "none" THEN Raise(s, x.exc)
              ELSE IF target = "undefined" THEN Raise(s, "NameError")
              ELSE SetKey(s, target, x.v)

\* obj[target] = obj[period][k]
FromPeriod(s, period, k, target) ==
    IF s.exc # "none" THEN s
    ELSE LET x == Subscript(s.obj[period], k) IN
         IF x.exc # "none" THEN Raise(s, x.exc) ELSE SetKey(s, target, x.v)

\* if k in obj: obj[target] = obj[k]
IfPresent(s, k, target) ==
    IF s.exc = "none" /\ k \in DOMAIN s.obj
    THEN SetKey(s, target, s.obj[k]) ELSE s

\* a period whose start and end are both guarded and both stored
GuardedPeriod(s, period) ==
    IF s.exc = "none" /\ period \in DOMAIN s.obj
    THEN IfInPeriod(IfInPeriod(s, period, _KEY_START, _KEY_DATE_TIME),
                    period, _KEY_END, _KEY_END_DATE_TIME)
    ELSE s

\* the same, but the end is stored under KEY_END_DATE_TIME, a name that is
\* not defined in the module (the constant is _KEY_END_DATE_TIME)
PeriodWithUndefinedName(s, period) ==
    IF s.exc = "none" /\ period \in DOMAIN s.obj
    THEN IfInPeriod(IfInPeriod(s, period, _KEY_START, _KEY_DATE_TIME),
                    period, _KEY_END, "undefined")
    ELSE s

ObservationTimes(d) ==
    LET KEY_EDT == <<"effectiveDateTime">>
        KEY_EP == <<"effectivePeriod">>
    IN PeriodWithUndefinedName(
           IfPresent(PState(d), KEY_EDT, _KEY_DATE_TIME), KEY_EP)

MedicationAdministrationTimes(d) ==
    LET KEY_EDT == <<"effectiveTimeDateTime">>
        KEY_EP == <<"effectiveTimePeriod">>
    IN PeriodWithUndefinedName(
           IfPresent(PState(d), KEY_EDT, _KEY_DATE_TIME), KEY_EP)

\* (variant: dateEnded is copied to date_time as well)
MedicationOrderTimesOneKey(d) ==
    IfPresent(IfPresent(PState(d), <<"dateWritten">>, _KEY_DATE_TIME),
              <<"dateEnded">>, _KEY_DATE_TIME)

MedicationOrderTimes(d) ==
    LET KEY_DW == <<"dateWritten">>
        KEY_DE == <<"dateEnded">>
    IN IfPresent(IfPresent(PState(d), KEY_DW, _KEY_DATE_TIME),
                 KEY_DE, _KEY_END_DATE_TIME)

MedicationStatementTimes(d) ==
    LET KEY_DA == <<"dateAsserted">>
    IN IfPresent(PState(d), KEY_DA, _KEY_DATE_TIME)

\* (variant: the periods are applied first, so the direct fields win)
ConditionTimesDirectWins(d) ==
    LET a == IF <<"onsetPeriod">> \in DOMAIN d
             THEN FromPeriod(PState(d), <<"onsetPeriod">>, _KEY_START,
                             _KEY_DATE_TIME)
             ELSE PState(d)
        b == IF a.exc = "none" /\ <<"abatementPeriod">> \in DOMAIN a.obj
             THEN FromPeriod(a, <<"abatementPeriod">>, _KEY_END,
                             _KEY_END_DATE_TIME)
             ELSE a
    IN IfPresent(IfPresent(b, <<"onsetDateTime">>, _KEY_DATE_TIME),
                 <<"abatementDateTime">>, _KEY_END_DATE_TIME)

\* (variant: the start and the end are read only from a period that has
\* them, as the Procedure decoder does)
ConditionTimesGuarded(d) ==
    LET a == IfPresent(IfPresent(PState(d), <<"onsetDateTime">>,
                                 _KEY_DATE_TIME),
                       <<"abatementDateTime">>, _KEY_END_DATE_TIME)
        b == IF <<"onsetPeriod">> \in DOMAIN a.obj
             THEN IfInPeriod(a, <<"onsetPeriod">>, _KEY_START, _KEY_DATE_TIME)
             ELSE a
    IN IF b.exc = "none" /\ <<"abatementPeriod">> \in DOMAIN b.obj
       THEN IfInPeriod(b, <<"abatementPeriod">>, _KEY_END, _KEY_END_DATE_TIME)
       ELSE b

ConditionTimes(d) ==
    LET KEY_ODT == <<"onsetDateTime">>
        KEY_OP == <<"onsetPeriod">>
        KEY_ADT == <<"abatementDateTime">>
        KEY_AP == <<"abatementPeriod">>
        a == IfPresent(PState(d), KEY_ODT, _KEY_DATE_TIME)
        b == IfPresent(a, KEY_ADT, _KEY_END_DATE_TIME)
        c == IF KEY_OP \in DOMAIN b.obj
             THEN FromPeriod(b, KEY_OP, _KEY_START, _KEY_DATE_TIME)
             ELSE b
    IN IF c.exc = "none" /\ KEY_AP \in DOMAIN c.obj
       THEN FromPeriod(c, KEY_AP, _KEY_END, _KEY_END_DATE_TIME)
       ELSE c

\* (variant: the period's start and end are read without the guards)
ProcedureTimesUnguarded(d) ==
    LET a == IfPresent(PState(d), <<"performedDateTime">>, _KEY_DATE_TIME)
    IN IF <<"performedPeriod">> \in DOMAIN a.obj
       THEN FromPeriod(FromPeriod(a, <<"performedPeriod">>, _KEY_START,
                                  _KEY_DATE_TIME),
                       <<"performedPeriod">>, _KEY_END, _KEY_END_DATE_TIME)
       ELSE a

ProcedureTimes(d) ==
    LET KEY_PDT == <<"performedDateTime">>
        KEY_PP == <<"performedPeriod">>
    IN GuardedPeriod(IfPresent(PState(d), KEY_PDT, _KEY_DATE_TIME), KEY_PP)

(***************************************************************************)
(* flatten (data_access/flatten.py): nested dicts and lists become one     *)
(* dict whose keys are the paths joined by '_', list positions included.   *)
(* A non-empty dict with no key other than start and end (a FHIR Period)   *)
(* stays a nested mapping under its path.  Empty containers leave no key.  *)
(***************************************************************************)
Join(name, seg) == IF name = <<>> THEN seg ELSE name \o <<"_">> \o seg

IsScalar(x) == x.t \notin {"obj", "list", "map"}

IsPeriod(x) ==
    /\ x.t = "obj"
    /\ DOMAIN x.m # {}
    /\ DOMAIN x.m \subseteq {_KEY_START, _KEY_END}
    /\ \A k \in DOMAIN x.m : IsScalar(x.m[k])

\* the set of <<key, value>> items flatten emits for x found at path name
RECURSIVE FlattenItems(_, _)
FlattenItems(x, name) ==
    IF x.t = "obj" \/ x.t = "map"
    THEN IF name # <<>> /\ IsPeriod(Obj(x.m))
         THEN {<<name, Map(x.m)>>}
         ELSE UNION {FlattenItems(x.m[a], Join(name, a)) : a \in DOMAIN x.m}
    ELSE IF x.t = "list"
    THEN UNION {FlattenItems(x.l[i], Join(name, ToDigits(i - 1))) :
                i \in 1..Len(x.l)}
    ELSE {<<name, x>>}

flatten(x) ==
    LET items == FlattenItems(x, <<>>)
    IN [k \in {it[1] : it \in items} |->
           (CHOOSE it \in items : it[1] = k)[2]]

(***************************************************************************)
(* time_finder.run (algorithms/finder/time_finder.py) on the time part of  *)
(* a timestamp: HH:MM:SS, then an optional fraction '.d+', then an         *)
(* optional 'Z' or offset (+|-)HH[:MM].  The list holds one TimeValue when *)
(* the string has this form and names a time of day, and is empty if not.  *)
(***************************************************************************)
AllDigits(s) == \A i \in 1..Len(s) : IsDigit(s[i])

TwoDigits(s, i) == i + 1 <= Len(s) /\ IsDigit(s[i]) /\ IsDigit(s[i + 1])

\* the offset part: [ok, sign, hours, minutes]
ParseOffset(s) ==
    LET no == [ok |-> FALSE, sign |-> None, hours |-> None, minutes |-> None]
    IN IF s = <<>>
       THEN [ok |-> TRUE, sign |-> None, hours |-> None, minutes |-> None]
       ELSE IF s = <<"Z">>
       THEN [ok |-> TRUE, sign |-> None, hours |-> None, minutes |-> None]
       ELSE IF s[1] \in {"+", "-"} /\ TwoDigits(s, 2)
       THEN IF Len(s) = 3
            THEN [ok |-> TRUE, sign |-> Str(<<s[1]>>),
                  hours |-> Num(ToInt(SubSeq(s, 2, 3))), minutes |-> None]
            ELSE IF Len(s) = 6 /\ s[4] = ":" /\ TwoDigits(s, 5)
            THEN [ok |-> TRUE, sign |-> Str(<<s[1]>>),
                  hours |-> Num(ToInt(SubSeq(s, 2, 3))),
                  minutes |-> Num(ToInt(SubSeq(s, 5, 6)))]
            ELSE no
       ELSE no

time_finder_run(time_str) ==
    LET hours == ToInt(SubSeq(time_str, 1, 2))
        minutes == ToInt(SubSeq(time_str, 4, 5))
        seconds == ToInt(SubSeq(time_str, 7, 8))
        rest == SubSeq(time_str, 9, Len(time_str))
        frac == IF rest # <<>> /\ rest[1] = "." THEN DigitRun(rest, 2)
                ELSE <<>>
        hasFrac == rest # <<>> /\ rest[1] = "."
        off == ParseOffset(IF hasFrac
                           THEN SubSeq(rest, 2 + Len(frac), Len(rest))
                           ELSE rest)
    IN IF /\ hours <= 23 /\ minutes <= 59 /\ seconds <= 59
          /\ (hasFrac => frac # <<>>)
          /\ off.ok
       THEN <<[hours |-> hours, minutes |-> minutes, seconds |-> seconds,
               fractional_seconds |-> IF hasFrac THEN Str(frac) ELSE None,
               gmt_delta_sign |-> off.sign,
               gmt_delta_hours |-> off.hours,
               gmt_delta_minutes |-> off.minutes]>>
       ELSE <<>>

(***************************************************************************)
(* _convert_datetimes.                                                     *)
(***************************************************************************)
TimeChars == {"-", "+", ".", "Z", ":"}

\* _regex_datetime.match(v)
RegexDatetimeMatch(v) ==
    /\ Len(v) >= 10
    /\ AllDigits(SubSeq(v, 1, 4)) /\ v[5] = "-"
    /\ AllDigits(SubSeq(v, 6, 7)) /\ v[8] = "-"
    /\ AllDigits(SubSeq(v, 9, 10))
    /\ \/ Len(v) = 10
       \/ /\ Len(v) >= 19
          /\ v[11] = "T"
          /\ TwoDigits(v, 12) /\ v[14] = ":"
          /\ TwoDigits(v, 15) /\ v[17] = ":"
          /\ TwoDigits(v, 18)
          /\ \A i \in 20..Len(v) : v[i] \in TimeChars \/ IsDigit(v[i])

IsLeap(y) == (y % 4 = 0 /\ y % 100 # 0) \/ y % 400 = 0

DaysInMonth(y, m) ==
    IF m = 2 THEN (IF IsLeap(y) THEN 29 ELSE 28)
    ELSE IF m \in {4, 6, 9, 11} THEN 30 ELSE 31

\* the checks of the datetime constructor and of timezone(offset)
DatetimeArgsOk(year, month, day, hour, minute, second, us, offset) ==
    /\ year \in 1..9999 /\ month \in 1..12
    /\ day \in 1..DaysInMonth(year, month)
    /\ hour \in 0..23 /\ minute \in 0..59 /\ second \in 0..59
    /\ us \in 0..999999
    /\ offset > -1440 /\ offset < 1440

\* datetime(year, month, day, hour, minute, second, us[, tzinfo]): the
\* object built, or ValueError.  tz tells whether the object has a tzinfo,
\* whose offset is in minutes.
MakeDatetime(year, month, day, hour, minute, second, us, tz, offset) ==
    IF DatetimeArgsOk(year, month, day, hour, minute, second, us, offset)
    THEN [exc |-> "none",
          v |-> [t |-> "dt", year |-> year, month |-> month, day |-> day,
                 hour |-> hour, minute |-> minute, second |-> second,
                 microsecond |-> us, tz |-> tz, offset |-> offset]]
    ELSE [exc |-> "ValueError", v |-> None]

\* us = int(frac_seconds) % 999999, 0 without a fraction
Microseconds(time_obj) ==
    IF time_obj.fractional_seconds # None
    THEN ToInt(time_obj.fractional_seconds.s) % 999999
    ELSE 0

\* a variant whose sign is positive only when a '+' is given
MultNegativeByDefault(time_obj) ==
    IF time_obj.gmt_delta_sign # None /\ time_obj.gmt_delta_sign = Str(<<"+">>)
    THEN 1 ELSE -1

\* mult = -1 if the sign is '-', else 1
Mult(time_obj) ==
    IF time_obj.gmt_delta_sign # None /\ time_obj.gmt_delta_sign = Str(<<"-">>)
    THEN -1 ELSE 1

\* (variant: the sign is applied to the minutes as well)
UtcOffsetSignedMinutes(time_obj) ==
    Mult(time_obj)
    * (60 * (IF time_obj.gmt_delta_hours # None
             THEN time_obj.gmt_delta_hours.n ELSE 0)
       + (IF time_obj.gmt_delta_minutes # None
          THEN time_obj.gmt_delta_minutes.n ELSE 0))

\* timedelta(hours=delta_hours, minutes=delta_min) in minutes: the sign is
\* applied to the hours only
UtcOffset(time_obj) ==
    60 * (IF time_obj.gmt_delta_hours # None
          THEN Mult(time_obj) * time_obj.gmt_delta_hours.n ELSE 0)
    + (IF time_obj.gmt_delta_minutes # None
       THEN time_obj.gmt_delta_minutes.n ELSE 0)

\* a variant that takes midnight UTC when time_finder does not find one time
WithTimeOrMidnight(year, month, day, time_list) ==
    IF Len(time_list) # 1
    THEN MakeDatetime(year, month, day, 0, 0, 0, 0, TRUE, 0)
    ELSE MakeDatetime(year, month, day, time_list[1].hours,
                      time_list[1].minutes, time_list[1].seconds,
                      Microseconds(time_list[1]), TRUE,
                      UtcOffset(time_list[1]))

\* the branch of a string with a time part, time_list being what
\* time_finder found in it
WithTime(year, month, day, time_list) ==
    IF Len(time_list) # 1
    THEN [exc |-> "AssertionError", v |-> None]
    ELSE MakeDatetime(year, month, day, time_list[1].hours,
                      time_list[1].minutes, time_list[1].seconds,
                      Microseconds(time_list[1]), TRUE,
                      UtcOffset(time_list[1]))

\* a variant that reads the day before the month
ConvertFoundDayMonth(v, time_list) ==
    IF Len(v) = 10
    THEN MakeDatetime(ToInt(SubSeq(v, 1, 4)), ToInt(SubSeq(v, 9, 10)),
                      ToInt(SubSeq(v, 6, 7)), 0, 0, 0, 0, FALSE, 0)
    ELSE WithTime(ToInt(SubSeq(v, 1, 4)), ToInt(SubSeq(v, 9, 10)),
                  ToInt(SubSeq(v, 6, 7)), time_list)

\* the body of the loop for a str v that matches, time_list being what
\* time_finder returns for its time part: the datetime object built, or the
\* exception raised
ConvertFound(v, time_list) ==
    IF Len(v) = 10
    THEN MakeDatetime(ToInt(SubSeq(v, 1, 4)), ToInt(SubSeq(v, 6, 7)),
                      ToInt(SubSeq(v, 9, 10)), 0, 0, 0, 0, FALSE, 0)
    ELSE WithTime(ToInt(SubSeq(v, 1, 4)), ToInt(SubSeq(v, 6, 7)),
                  ToInt(SubSeq(v, 9, 10)), time_list)

\* match.group('time'): the part of v that follows the 'T'
TimePart(v) == SubSeq(v, 12, Len(v))

\* the body of the loop for a str v that matches
ConvertString(v) == ConvertFound(v, time_finder_run(TimePart(v)))

Converts(x) == x.t = "str" /\ RegexDatetimeMatch(x.s)

\* the conversions of the entries of d that are converted
Conversions(d) ==
    [k \in {j \in DOMAIN d : Converts(d[j])} |-> ConvertString(d[k].s)]

\* the same when the answer of time_finder is known to be the list finder.l
ConversionsFound(d, finder) ==
    [k \in {j \in DOMAIN d : Converts(d[j])} |-> ConvertFound(d[k].s, finder.l)]

\* a variant that returns a mapping of the converted entries alone
ConvertedEntriesOnly(d, c) ==
    [obj |-> [k \in DOMAIN c |-> c[k].v],
     excs |-> {c[k].exc : k \in DOMAIN c} \ {"none"}]

\* the mapping with the conversions c applied, and the exceptions the loop
\* can end with: that of the first entry, in the dict's order, whose
\* conversion raises
Converted(d, c) ==
    [obj |-> [k \in DOMAIN d |-> IF k \in DOMAIN c THEN c[k].v ELSE d[k]],
     excs |-> {c[k].exc : k \in DOMAIN c} \ {"none"}]

\* _convert_datetimes(d): the mapping returned when no conversion raises,
\* and the exceptions the call can end with
_convert_datetimes(d) == Converted(d, Conversions(d))

(***************************************************************************)
(* _process_resource and the decoders as functions of their argument.      *)
(***************************************************************************)
ResourceTypes ==
    {"Patient", "Observation", "Procedure", "Condition",
     "MedicationStatement", "MedicationOrder", "MedicationAdministration"}

\* the decoders that call _contained_med_resource_init
\* a variant in which the Condition decoder calls it too
WithContainedAndCondition ==
    {"Procedure", "MedicationStatement", "MedicationOrder",
     "MedicationAdministration", "Condition"}

WithContained ==
    {"Procedure", "MedicationStatement", "MedicationOrder",
     "MedicationAdministration"}

\* the timestamp part of the decoder of resource type r
TimesOf(r, d) ==
    CASE r = "Observation" -> ObservationTimes(d)
      [] r = "MedicationAdministration" -> MedicationAdministrationTimes(d)
      [] r = "MedicationOrder" -> MedicationOrderTimes(d)
      [] r = "MedicationStatement" -> MedicationStatementTimes(d)
      [] r = "Condition" -> ConditionTimes(d)
      [] r = "Procedure" -> ProcedureTimes(d)

\* the list shapes of the decoder of resource type r
ShapesOf(r) ==
    CASE r = "Observation" -> ObservationShapes
      [] r = "MedicationAdministration" -> MedicationAdministrationShapes
      [] r = "MedicationOrder" -> MedicationOrderShapes
      [] r = "MedicationStatement" -> MedicationStatementShapes
      [] r = "Condition" -> ConditionShapes
      [] r = "Procedure" -> ProcedureShapes
      [] r = "Patient" -> PatientShapes

\* json.loads of a str: a str is modelled by whether it parses and by the
\* value it parses to
Json(v) == [t |-> "json", ok |-> TRUE, v |-> v]
BadJson == [t |-> "json", ok |-> FALSE, v |-> None]

\* json.loads(x) for a str, x itself otherwise
Parsed(x) == IF x.t = "json" THEN x.v ELSE x

\* The head of _decode_flattened_patient: a str argument is parsed (the
\* except clause names json.decoder.JSONDecoderError, which does not exist,
\* so a parse error ends in an AttributeError), the argument must be a dict,
\* and it is flattened and its datetimes converted.  Gives the mapping and
\* the set of exceptions the call can end with.
PatientHead(x) ==
    IF x.t = "json" /\ ~x.ok
    THEN [obj |-> EmptyDict, excs |-> {"AttributeError"}]
    ELSE IF Parsed(x).t \notin {"obj", "map"}
    THEN [obj |-> EmptyDict, excs |-> {"AssertionError"}]
    ELSE _convert_datetimes(flatten(Parsed(x)))

\* the statements of the decoder of resource type r after the timestamps
Statements(r) ==
    _base_init
    \o (IF r \in WithContained THEN _contained_med_resource_init ELSE <<>>)
    \o ShapesOf(r)

\* the decoder of type r from its head, which ended as h = [obj, excs] for
\* Patient and as h = [obj, exc] for the other types
AfterHead(r, h) ==
    IF r = "Patient" /\ h.excs # {}
    THEN [DState(h.obj) EXCEPT !.exc = CHOOSE e \in h.excs : TRUE]
    ELSE IF r # "Patient" /\ h.exc # "none"
    THEN [DState(h.obj) EXCEPT !.exc = h.exc]
    ELSE Exec(DState(h.obj), Statements(r))

\* the decoder of resource type r applied to the mapping d
Decoder(r, d) ==
    AfterHead(r, IF r = "Patient" THEN PatientHead(Map(d)) ELSE TimesOf(r, d))

\* the resource type _process_resource dispatches on: "" when the flattened
\* mapping has no resourceType key or when its value is none of the seven
DispatchType(x, f) ==
    IF _STR_RESOURCE_TYPE \in DOMAIN f
       /\ x.m[_STR_RESOURCE_TYPE].t = "str"
       /\ Len(x.m[_STR_RESOURCE_TYPE].s) = 1
       /\ x.m[_STR_RESOURCE_TYPE].s[1] \in ResourceTypes
    THEN x.m[_STR_RESOURCE_TYPE].s[1]
    ELSE ""

\* what _process_resource returns for the decoder state s
ResultOf(s) ==
    IF s.exc # "none" THEN [result |-> None, excs |-> {s.exc}]
    ELSE [result |-> Map(s.obj), excs |-> {}]

\* _process_resource(x) after the conversion of the datetimes, which ended
\* as c
Dispatch(x, c) ==
    IF c.excs # {} THEN [result |-> None, excs |-> c.excs]
    ELSE IF DispatchType(x, c.obj) = "" THEN [result |-> None, excs |-> {}]
    ELSE ResultOf(Decoder(DispatchType(x, c.obj), c.obj))

\* _process_resource(x): the value returned (None or the decoded mapping)
\* and the exceptions the call can end with
_process_resource(x) ==
    IF x.t # "obj" THEN [result |-> None, excs |-> {"AssertionError"}]
    ELSE Dispatch(x, _convert_datetimes(flatten(x)))

(***************************************************************************)
(* The arguments the calls are made with.                                  *)
(***************************************************************************)
\* n as a string of w digits
RECURSIVE Pad(_, _)
Pad(n, w) == IF w = 0 THEN <<>> ELSE Pad(n \div 10, w - 1) \o <<Digits[(n % 10) + 1]>>

DateStr(y, m, d) == Pad(y, 4) \o <<"-">> \o Pad(m, 2) \o <<"-">> \o Pad(d, 2)

TimeStr(h, m, sec) == Pad(h, 2) \o <<":">> \o Pad(m, 2) \o <<":">> \o Pad(sec, 2)

\* '2019-01-01'
S_DIRECT == Str(DateStr(2019, 1, 1))
\* '2020-03-14T08:30:00.500-05:00'
S_INSTANT ==
    Str(DateStr(2020, 3, 14) \o <<"T">> \o TimeStr(8, 30, 0)
        \o <<".", "5", "0", "0", "-", "0", "5", ":", "0", "0">>)
\* '2020-03-14'
S_START == Str(DateStr(2020, 3, 14))
\* '2021-12-31T23:59:59Z'
S_END == Str(DateStr(2021, 12, 31) \o <<"T">> \o TimeStr(23, 59, 59) \o <<"Z">>)
\* '2022-02-02'
S_END_DIRECT == Str(DateStr(2022, 2, 2))
\* '2020-13-01': matches the pattern, is no date
S_BAD_MONTH == Str(DateStr(2020, 13, 1))
\* '2020-03-14T25:00:00': matches the pattern, is no time of day
S_BAD_TIME == Str(DateStr(2020, 3, 14) \o <<"T">> \o TimeStr(25, 0, 0))

\* the dict {k: v}, empty when the record has no such field
Field(k, v) == IF k = <<>> \/ v = None THEN EmptyDict ELSE (k :> v)

\* the timestamp fields of each resource type: direct and period field of
\* the primary timestamp, direct and period field of the secondary one
TimeKeys(r) ==
    CASE r = "Observation" ->
           <<<<"effectiveDateTime">>, <<"effectivePeriod">>, <<>>, <<>>>>
      [] r = "MedicationAdministration" ->
           <<<<"effectiveTimeDateTime">>, <<"effectiveTimePeriod">>, <<>>, <<>>>>
      [] r = "MedicationOrder" ->
           <<<<"dateWritten">>, <<>>, <<"dateEnded">>, <<>>>>
      [] r = "MedicationStatement" ->
           <<<<"dateAsserted">>, <<>>, <<>>, <<>>>>
      [] r = "Condition" ->
           <<<<"onsetDateTime">>, <<"onsetPeriod">>,
             <<"abatementDateTime">>, <<"abatementPeriod">>>>
      [] r = "Procedure" ->
           <<<<"performedDateTime">>, <<"performedPeriod">>, <<>>, <<>>>>
      [] OTHER -> <<<<"birthDate">>, <<>>, <<>>, <<>>>>

PeriodChoices ==
    {None,
     Obj(_KEY_START :> S_START),
     Obj(_KEY_END :> S_END),
     Obj((_KEY_START :> S_START) @@ (_KEY_END :> S_END))}

TimeFields(r) ==
    LET k == TimeKeys(r) IN
    {Field(k[1], a) @@ Field(k[2], b) @@ Field(k[3], c) @@ Field(k[4], e) :
        a \in {None, S_DIRECT, S_INSTANT}, b \in PeriodChoices,
        c \in {None, S_END_DIRECT}, e \in PeriodChoices}

Coding == Obj((<<"system">> :> Str(<<"s">>)) @@ (<<"code">> :> Str(<<"c">>)))

\* a CodeableConcept with n codings
CodeableConcept(n) ==
    Obj((<<"text">> :> Str(<<"t">>))
        @@ (<<"coding">> :> List([i \in 1..n |-> Coding])))

\* the list [f(1), ..., f(n)]
ListOf(n, f(_)) == List([i \in 1..n |-> f(i)])

\* list fields every resource can have, with n elements each
CommonLists(n) ==
    (<<"identifier">> :> ListOf(n, LAMBDA i :
        Obj((<<"value">> :> Str(<<"v">>)) @@ (<<"type">> :> CodeableConcept(i)))))
    @@ (<<"extension">> :> ListOf(n, LAMBDA i :
        Obj((<<"url">> :> Str(<<"u">>))
            @@ (<<"valueHumanName">> :> Obj(<<"given">> :>
                   ListOf(i, LAMBDA j : Str(<<"Ann">>))))
            @@ (<<"extension">> :> ListOf(i, LAMBDA j :
                   Obj((<<"url">> :> Str(<<"u">>))
                       @@ (<<"extension">> :> ListOf(1, LAMBDA q :
                              Obj(<<"url">> :> Str(<<"u">>))))))))))
    @@ (<<"contained">> :> ListOf(n, LAMBDA i :
        Obj((<<"resourceType">> :> Str(<<"Medication">>))
            @@ (<<"code">> :> CodeableConcept(i)))))

\* list fields of each resource type, with n elements each
TypeLists(r, n) ==
    CASE r = "Observation" ->
           (<<"component">> :> ListOf(n, LAMBDA i :
               Obj(<<"code">> :> CodeableConcept(i))))
           @@ (<<"referenceRange">> :> ListOf(n, LAMBDA i :
               Obj(<<"meaning">> :> CodeableConcept(1))))
      [] r = "MedicationAdministration" ->
           (<<"reasonNotGiven">> :> ListOf(n, LAMBDA i : CodeableConcept(i)))
           @@ (<<"reasonGiven">> :> ListOf(n, LAMBDA i : CodeableConcept(1)))
      [] r = "MedicationOrder" ->
           (<<"dosageInstruction">> :> ListOf(n, LAMBDA i :
               Obj(<<"route">> :> CodeableConcept(i))))
      [] r = "MedicationStatement" ->
           (<<"reasonNotTaken">> :> ListOf(n, LAMBDA i : CodeableConcept(i)))
           @@ (<<"dosage">> :> ListOf(n, LAMBDA i :
               Obj(<<"route">> :> CodeableConcept(i))))
      [] r = "Condition" ->
           (<<"evidence">> :> ListOf(n, LAMBDA i :
               Obj(<<"code">> :> CodeableConcept(i))))
           @@ (<<"bodySite">> :> ListOf(n, LAMBDA i : CodeableConcept(i)))
      [] r = "Procedure" ->
           (<<"bodySite">> :> ListOf(n, LAMBDA i : CodeableConcept(i)))
           @@ (<<"performer">> :> ListOf(n, LAMBDA i :
               Obj(<<"role">> :> CodeableConcept(i))))
      [] r = "Patient" ->
           (<<"name">> :> ListOf(n, LAMBDA i :
               Obj((<<"family">> :> ListOf(1, LAMBDA j : Str(<<"Doe">>)))
                   @@ (<<"given">> :> ListOf(i, LAMBDA j : Str(<<"Ann">>))))))
           @@ (<<"contact">> :> ListOf(n, LAMBDA i :
               Obj(<<"relationship">> :> ListOf(i, LAMBDA j :
                      CodeableConcept(j)))))
      [] OTHER -> EmptyDict

\* the resourceType field: none for "Missing"
TypeField(r) ==
    IF r = "Missing" THEN EmptyDict ELSE (_STR_RESOURCE_TYPE :> Str(<<r>>))

TypeChoices == ResourceTypes \cup {"Unsupported", "Missing"}

\* records of every type: every combination of timestamp fields, lists of
\* every length up to MaxLen
RegularRecords ==
    UNION {{Obj(TypeField(r) @@ tf @@ CommonLists(n) @@ TypeLists(r, n)) :
               tf \in TimeFields(r), n \in 0..MaxLen} : r \in TypeChoices}

\* records with a string that matches the datetime pattern and is no
\* datetime
BadTimeRecords ==
    {Obj(TypeField(r) @@ (<<"issued">> :> v)) :
        r \in TypeChoices, v \in {S_BAD_MONTH, S_BAD_TIME}}

\* records that do not follow the DSTU2 schema: a 'reason' object next to
\* the reasonNotTaken list, a key that spells a path, a list with an empty
\* element
OffSchemaRecords ==
    {Obj(TypeField("MedicationStatement")
         @@ (<<"reasonNotTaken">> :> ListOf(2, LAMBDA i : CodeableConcept(1)))
         @@ (<<"reason">> :> CodeableConcept(3))),
     Obj(TypeField("MedicationAdministration")
         @@ (<<"reasonNotGiven">> :> ListOf(1, LAMBDA i : CodeableConcept(1)))
         @@ (T(<<"reasonNotGiven", "coding">>) :>
                ListOf(2, LAMBDA i : Coding))),
     Obj(TypeField("Observation")
         @@ (<<"code">> :> CodeableConcept(2))
         @@ (<<"performer">> :>
                List(<<Obj(EmptyDict), Obj(<<"display">> :> Str(<<"d">>))>>)))}

\* an extension with m extensions, each with two extensions of its own
InnerExtensions(m) ==
    ListOf(m, LAMBDA j :
        Obj((<<"url">> :> Str(<<"u">>))
            @@ (<<"extension">> :>
                   ListOf(2, LAMBDA q : Obj(<<"url">> :> Str(<<"u">>))))))

\* records with n modifierExtension elements, each with a coded value and
\* with extensions nested in extensions
ModifiedRecords ==
    {Obj(TypeField(r)
         @@ (<<"modifierExtension">> :> ListOf(n, LAMBDA i :
                Obj((<<"url">> :> Str(<<"u">>))
                    @@ (<<"valueCodeableConcept">> :> CodeableConcept(i))
                    @@ (<<"extension">> :> InnerExtensions(i)))))) :
        r \in {"Condition", "MedicationOrder"}, n \in 1..MaxLen}

RawRecords ==
    RegularRecords \cup BadTimeRecords \cup OffSchemaRecords
    \cup ModifiedRecords

\* the records bundles are made of: one of each type, and two that raise
BundleRecords ==
    {Obj(TypeField(r) @@ Field(TimeKeys(r)[1], S_DIRECT)
         @@ TypeLists(r, 1)) : r \in TypeChoices}
    \cup {Obj(TypeField("Condition") @@ (<<"issued">> :> S_BAD_MONTH)),
          Obj(TypeField("Observation") @@ (<<"issued">> :> S_BAD_TIME))}

Bundles == UNION {[1..n -> BundleRecords] : n \in 0..MaxBundle}

KEY_NAME == <<"name">>
KEY_RESULT == <<"result">>
KEY_RESULT_TYPE == <<"resultType">>
STR_PATIENT == "Patient"
STR_BUNDLE2 == "FhirBundleCursorStu2"
STR_BUNDLE3 == "FhirBundleCursorStu3"

Envelope(type, result) ==
    Obj((KEY_NAME :> Str(<<"n">>)) @@ (KEY_RESULT_TYPE :> Str(<<type>>))
        @@ (KEY_RESULT :> result))

PatientRecords ==
    {Obj(TypeField("Patient") @@ tf @@ CommonLists(n) @@ TypeLists("Patient", n)) :
        tf \in {EmptyDict, <<"birthDate">> :> S_DIRECT,
                <<"birthDate">> :> S_BAD_MONTH},
        n \in {0, 1}}

\* a HumanName with f family names, g given names and x suffixes; a part
\* with no element is absent, and no name has a prefix
HumanName(f, g, x) ==
    Obj((<<"use">> :> Str(<<"official">>))
        @@ (IF f = 0 THEN EmptyDict
            ELSE <<"family">> :> ListOf(f, LAMBDA j : Str(<<"Doe">>)))
        @@ (IF g = 0 THEN EmptyDict
            ELSE <<"given">> :> ListOf(g, LAMBDA j :
                     IF j = 1 THEN Str(<<"Ann">>) ELSE Str(<<"Marie">>)))
        @@ (IF x = 0 THEN EmptyDict
            ELSE <<"suffix">> :> ListOf(x, LAMBDA j : Str(<<"Jr">>))))

HumanNames == {HumanName(f, g, x) : f \in 0..1, g \in 0..2, x \in 0..1}

\* Patient records with up to two names
NamedPatients ==
    {Obj(TypeField("Patient") @@ (<<"name">> :> List(names))) :
        names \in UNION {[1..n -> HumanNames] : n \in 0..2}}

Envelopes ==
    {Envelope(STR_BUNDLE2, Json(List(b))) : b \in Bundles}
    \cup {Envelope(STR_PATIENT, Json(x)) : x \in NamedPatients}
    \cup {Envelope(STR_BUNDLE3, Json(List(b))) :
             b \in {c \in Bundles : Len(c) <= 1}}
    \cup {Envelope(STR_BUNDLE2, x) :
             x \in {BadJson, Json(Obj(EmptyDict)), List(<<>>)}}
    \cup {Envelope(STR_PATIENT, Json(x)) : x \in PatientRecords}
    \cup {Envelope(STR_PATIENT, x) : x \in PatientRecords}
    \cup {Envelope(STR_PATIENT, x) : x \in {BadJson, Json(List(<<>>))}}
    \cup {Envelope("Observation", Json(List(<<>>))),
          Obj(KEY_NAME :> Str(<<"n">>)),
          Obj(KEY_RESULT_TYPE :> Str(<<STR_PATIENT>>)),
          Obj(KEY_RESULT :> Json(List(<<>>))),
          List(<<>>)}

(***************************************************************************)
(* Direct calls of _set_list_length: the prefixes are those the decoders   *)
(* pass, the mappings have keys built on the prefix and keys of records.   *)
(***************************************************************************)
\* most keys of a mapping passed directly
MaxKeys == 2

\* the prefixes passed while decoding the records of every type whose lists
\* have MaxLen elements
PrefixesUsed ==
    {c.prefix : c \in UNION {Range(Decoder(r, _convert_datetimes(flatten(
                        Obj(TypeField(r) @@ CommonLists(MaxLen)
                            @@ TypeLists(r, MaxLen)))).obj).calls) :
                  r \in ResourceTypes}}

\* the keys of the elements of a list found at the path the prefix names
\* (a template that was passed unformatted names the path of its index 0),
\* of keys next to it, and two keys of records that stray from the schema
KeysOn(p) ==
    LET q == Format(p, <<<<"0">>, <<"0">>, <<"0">>>>) IN
    {q \o <<"_", "0">>,
     q \o <<"_", "1", "_", "code">>,
     q \o <<"_", "9">>,
     q \o <<"_", "1", "0", "_", "code">>,
     q \o <<"_", "text">>,
     <<"x", "_">> \o q \o <<"_", "3">>,
     LenKey(q, 0),
     T(<<"reasonNotGiven", "coding", "1", "code">>),
     T(<<"reason", "coding", "0", "code">>)}

MappingsOn(p) ==
    {[k \in K |-> Num(7)] : K \in {S \in SUBSET KeysOn(p) : Cardinality(S) <= MaxKeys}}

(***************************************************************************)
(* Direct calls of _convert_datetimes: a mapping with a timestamp under    *)
(* 'when' and at most one more entry.  time_finder is a collaborator, so   *)
(* besides the calls in which it answers as modelled above there are calls *)
(* in which its answer is any list its contract allows: a decomposition    *)
(* whose fraction, sign, offset hours and offset minutes can each be       *)
(* missing, no decomposition, or two.                                      *)
(***************************************************************************)
\* the fractions of a second: '', '.5', '.500', '.999998', '.999999',
\* '.1000000'
Fractions ==
    {<<>>, <<".", "5">>, <<".", "5", "0", "0">>,
     <<".", "9", "9", "9", "9", "9", "8">>,
     <<".", "9", "9", "9", "9", "9", "9">>,
     <<".", "1", "0", "0", "0", "0", "0", "0">>}

\* the UTC offsets: '', 'Z', '+05', '-05:00', '-05:30', '+00:30'
Offsets ==
    {<<>>, <<"Z">>, <<"+", "0", "5">>,
     <<"-", "0", "5", ":", "0", "0">>,
     <<"-", "0", "5", ":", "3", "0">>,
     <<"+", "0", "0", ":", "3", "0">>}

\* '2020-03-14T08:30:00' followed by a fraction and an offset
InstantStrings ==
    {Str(DateStr(2020, 3, 14) \o <<"T">> \o TimeStr(8, 30, 0) \o f \o o) :
        f \in Fractions, o \in Offsets}

\* dates: two that exist, and three that match the pattern and do not
DateStrings ==
    {Str(DateStr(2020, 3, 14)), Str(DateStr(2020, 2, 29)),
     Str(DateStr(2019, 2, 29)), Str(DateStr(2020, 13, 1)),
     Str(DateStr(0, 1, 1))}

\* strings that do not match the pattern: '2020-03-14T08:30', '2020-3-14',
\* '2020-03-14T08:30:00 UTC', 'x2020-03-14', '2020-03-14x'
OtherStrings ==
    {Str(DateStr(2020, 3, 14) \o <<"T", "0", "8", ":", "3", "0">>),
     Str(<<"2", "0", "2", "0", "-", "3", "-", "1", "4">>),
     Str(DateStr(2020, 3, 14) \o <<"T">> \o TimeStr(8, 30, 0)
         \o <<" ", "U", "T", "C">>),
     Str(<<"x">> \o DateStr(2020, 3, 14)),
     Str(DateStr(2020, 3, 14) \o <<"x">>)}

\* values that are no strings: a number, a period, None
NonStrings == {Num(7), Map(_KEY_START :> S_START), None}

\* the decompositions the contract of time_finder allows for '08:30:00...'
TimeValues ==
    {[hours |-> 8, minutes |-> 30, seconds |-> 0,
      fractional_seconds |-> f, gmt_delta_sign |-> sg,
      gmt_delta_hours |-> h, gmt_delta_minutes |-> m] :
        f \in {None, Str(<<"5", "0", "0">>)},
        sg \in {None, Str(<<"+">>), Str(<<"-">>)},
        h \in {None, Num(5)}, m \in {None, Num(30)}}

\* the answers of time_finder that are given with the call: one
\* decomposition, none, or the same one twice
Finders ==
    {List(<<tv>>) : tv \in TimeValues}
    \cup {List(<<>>)}
    \cup {List(<<tv, tv>>) : tv \in {x \in TimeValues : x.gmt_delta_hours = None}}

\* the mapping {'when': v} with one more entry, or none
WithOther(v) ==
    {(<<"when">> :> v) @@ o :
        o \in {EmptyDict, <<"other">> :> Num(7), <<"other">> :> S_DIRECT,
               <<"other">> :> Str(<<"A", "n", "n">>)}}

\* the direct calls: finder is None when time_finder answers as modelled
ConvertEntries ==
    {[fn |-> "_convert_datetimes", arg |-> Map(d), finder |-> None] :
        d \in UNION {WithOther(v) :
                        v \in InstantStrings \cup DateStrings
                              \cup OtherStrings \cup NonStrings
                              \cup {S_BAD_TIME}}}
    \cup {[fn |-> "_convert_datetimes",
           arg |-> Map(<<"when">> :> Str(DateStr(2020, 3, 14) \o <<"T">>
                                         \o TimeStr(8, 30, 0))),
           finder |-> f] : f \in Finders}

(***************************************************************************)
(* The state machine.                                                      *)
(***************************************************************************)
Entries ==
    {[fn |-> "_process_resource", arg |-> x] : x \in RawRecords \cup {List(<<>>)}}
    \cup {[fn |-> "decode_top_level_obj", arg |-> x] : x \in Envelopes}

Init ==
    /\ pc = "call"
    /\ todo = <<>>
    /\ bundled_objs = <<>>
    /\ raw = None
    /\ rt = ""
    /\ flat = EmptyDict
    /\ calls = <<>>
    /\ stages = <<>>
    /\ exc = "none"
    /\ result_obj = None
    /\ \/ /\ entry \in Entries
          /\ obj = EmptyDict
          /\ prefix_str = <<>>
       \/ /\ prefix_str \in PrefixesUsed
          /\ obj \in MappingsOn(prefix_str)
          /\ entry = [fn |-> "_set_list_length", arg |-> Map(obj)]
       \/ /\ entry \in ConvertEntries
          /\ obj = entry.arg.m
          /\ prefix_str = <<>>

\* the run ends with exception e
Raised(e) ==
    /\ pc' = "raised"
    /\ exc' = e

\* the call returns v to the caller of the module
Returned(v) ==
    /\ pc' = "done"
    /\ result_obj' = v

\* the machine after a direct call has ended as r
DirectCallEnds(r) ==
    /\ obj' = r.obj
    /\ calls' = Append(calls, [prefix |-> prefix_str, ret |-> r.ret])
    /\ IF r.exc # "none" THEN Raised(r.exc) /\ UNCHANGED result_obj
       ELSE IF pc = "call" THEN pc' = "again" /\ UNCHANGED <<exc, result_obj>>
       ELSE Returned(Num(r.ret)) /\ UNCHANGED exc

\* a direct call _set_list_length(obj, prefix_str), made twice in a row;
\* flat keeps the mapping as it was before the call
SetListLength ==
    /\ entry.fn = "_set_list_length"
    /\ pc \in {"call", "again"}
    /\ DirectCallEnds(_set_list_length(obj, prefix_str))
    /\ flat' = obj
    /\ UNCHANGED <<entry, todo, bundled_objs, raw, rt, stages, prefix_str>>

\* the machine after the loop of a direct call of _convert_datetimes, c
\* being the conversions of the entries.  The loop assigns into the mapping
\* it was given, in the order of the mapping's keys: when the conversion of
\* an entry raises, the entries before it have been replaced.
ConvertEnds(c) ==
    IF \E k \in DOMAIN c : c[k].exc # "none"
    THEN \E k \in {j \in DOMAIN c : c[j].exc # "none"} :
         \E before \in SUBSET {j \in DOMAIN c : c[j].exc = "none"} :
            /\ Raised(c[k].exc)
            /\ obj' = [j \in DOMAIN obj |->
                          IF j \in before THEN c[j].v ELSE obj[j]]
            /\ UNCHANGED result_obj
    ELSE /\ Returned(Map(Converted(obj, c).obj))
         /\ obj' = Converted(obj, c).obj
         /\ UNCHANGED exc

\* a direct call _convert_datetimes(obj); flat keeps the mapping as it was
\* before the call
ConvertDatetimes ==
    /\ entry.fn = "_convert_datetimes"
    /\ pc = "call"
    /\ ConvertEnds(IF entry.finder = None THEN Conversions(obj)
                   ELSE ConversionsFound(obj, entry.finder))
    /\ flat' = obj
    /\ UNCHANGED <<entry, todo, bundled_objs, raw, rt, calls, stages,
                   prefix_str>>

\* a variant that hands the payload of every result type that is not a
\* bundle cursor to the Patient decoder
decode_top_level_obj_patient_by_default ==
    /\ entry.fn = "decode_top_level_obj"
    /\ pc = "call"
    /\ LET o == entry.arg IN
       IF o.t # "obj"
       THEN Raised("AssertionError") /\ UNCHANGED <<result_obj, raw, rt>>
       ELSE IF KEY_RESULT_TYPE \in DOMAIN o.m /\ KEY_RESULT \in DOMAIN o.m
       THEN LET result_type_str == o.m[KEY_RESULT_TYPE].s[1] IN
            IF STR_BUNDLE2 = result_type_str
               \/ STR_BUNDLE3 = result_type_str
            THEN /\ pc' = "bundle"
                 /\ UNCHANGED <<exc, result_obj, raw, rt>>
            ELSE /\ pc' = "patient"
                 /\ raw' = o.m[KEY_RESULT]
                 /\ rt' = "Patient"
                 /\ UNCHANGED <<exc, result_obj>>
       ELSE Returned(None) /\ UNCHANGED <<exc, raw, rt>>
    /\ UNCHANGED <<entry, todo, bundled_objs, flat, obj, calls, stages,
                   prefix_str>>

\* decode_top_level_obj(obj)
decode_top_level_obj ==
    /\ entry.fn = "decode_top_level_obj"
    /\ pc = "call"
    /\ LET o == entry.arg IN
       IF o.t # "obj"
       THEN Raised("AssertionError") /\ UNCHANGED <<result_obj, raw, rt>>
       ELSE IF KEY_RESULT_TYPE \in DOMAIN o.m /\ KEY_RESULT \in DOMAIN o.m
       THEN LET result_type_str == o.m[KEY_RESULT_TYPE].s[1] IN
            IF STR_PATIENT = result_type_str
            THEN /\ pc' = "patient"
                 /\ raw' = o.m[KEY_RESULT]
                 /\ rt' = "Patient"
                 /\ UNCHANGED <<exc, result_obj>>
            ELSE IF STR_BUNDLE2 = result_type_str
                    \/ STR_BUNDLE3 = result_type_str
            THEN /\ pc' = "bundle"
                 /\ UNCHANGED <<exc, result_obj, raw, rt>>
            ELSE Returned(None) /\ UNCHANGED <<exc, raw, rt>>
       ELSE Returned(None) /\ UNCHANGED <<exc, raw, rt>>
    /\ UNCHANGED <<entry, todo, bundled_objs, flat, obj, calls, stages,
                   prefix_str>>

\* _decode_bundle(name, bundle_obj), up to the loop
_decode_bundle ==
    /\ pc = "bundle"
    /\ LET bundle_obj == entry.arg.m[KEY_RESULT] IN
       IF bundle_obj.t # "json"
       THEN Raised("AssertionError") /\ UNCHANGED <<result_obj, todo>>
       ELSE IF ~bundle_obj.ok
       THEN Returned(List(<<>>)) /\ UNCHANGED <<exc, todo>>
       ELSE IF bundle_obj.v.t # "list"
       THEN Raised("AssertionError") /\ UNCHANGED <<result_obj, todo>>
       ELSE /\ pc' = "loop"
            /\ todo' = bundle_obj.v.l
            /\ UNCHANGED <<exc, result_obj>>
    /\ bundled_objs' = <<>>
    /\ UNCHANGED <<entry, raw, rt, flat, obj, calls, stages, prefix_str>>

\* the head of the loop of _decode_bundle: the next element is handed to
\* _process_resource, or the list built is returned
BundleLoop ==
    /\ pc = "loop"
    /\ IF todo = <<>>
       THEN /\ Returned(List(bundled_objs))
            /\ UNCHANGED <<exc, todo, raw, calls, stages>>
       ELSE /\ pc' = "flatten"
            /\ raw' = Head(todo)
            /\ todo' = Tail(todo)
            /\ calls' = <<>>
            /\ stages' = <<>>
            /\ UNCHANGED <<exc, result_obj>>
    /\ UNCHANGED <<entry, bundled_objs, rt, flat, obj, prefix_str>>

\* the command line: _process_resource(json_data)
Main ==
    /\ entry.fn = "_process_resource"
    /\ pc = "call"
    /\ pc' = "flatten"
    /\ raw' = entry.arg
    /\ UNCHANGED <<entry, todo, bundled_objs, rt, flat, obj, calls, stages,
                   exc, result_obj, prefix_str>>

\* _process_resource: flattened_obj = flatten(obj)
ProcessFlatten ==
    /\ pc = "flatten"
    /\ IF raw.t # "obj"
       THEN Raised("AssertionError") /\ UNCHANGED <<obj, stages>>
       ELSE /\ pc' = "convert"
            /\ obj' = flatten(raw)
            /\ stages' = Append(stages, "flatten")
            /\ UNCHANGED exc
    /\ UNCHANGED <<entry, todo, bundled_objs, raw, rt, flat, calls,
                   result_obj, prefix_str>>

\* the machine after flatten and _convert_datetimes have ended as h: one of
\* the exceptions is raised, or the mapping is the converted one
HeadEnds(h, next) ==
    IF h.excs # {}
    THEN (\E e \in h.excs : Raised(e)) /\ UNCHANGED obj
    ELSE pc' = next /\ obj' = h.obj /\ UNCHANGED exc

\* _process_resource: flattened_obj = _convert_datetimes(flattened_obj)
ProcessConvert ==
    /\ pc = "convert"
    /\ HeadEnds(_convert_datetimes(obj), "dispatch")
    /\ stages' = Append(stages, "convert")
    /\ UNCHANGED <<entry, todo, bundled_objs, raw, rt, flat, calls,
                   result_obj, prefix_str>>

\* _process_resource: the resource type is read and the decoder chosen
ProcessDispatch ==
    /\ pc = "dispatch"
    /\ rt' = DispatchType(raw, obj)
    /\ flat' = obj
    /\ pc' = IF rt' = "" THEN "return"
             ELSE IF rt' = "Patient" THEN "patient" ELSE "times"
    /\ stages' = Append(stages, "dispatch")
    /\ UNCHANGED <<entry, todo, bundled_objs, raw, obj, calls, exc,
                   result_obj, prefix_str>>

\* _decode_flattened_patient, up to _base_init: its argument is the record
\* of the envelope, or the mapping _process_resource has flattened
PatientFlatten ==
    /\ pc = "patient"
    /\ HeadEnds(PatientHead(IF entry.fn = "decode_top_level_obj"
                               /\ entry.arg.m[KEY_RESULT_TYPE].s[1] = STR_PATIENT
                            THEN raw ELSE Map(obj)),
                "base_init")
    /\ flat' = IF pc' = "base_init" THEN obj' ELSE flat
    /\ stages' = Append(stages, "patient_flatten_convert")
    /\ UNCHANGED <<entry, todo, bundled_objs, raw, rt, calls, result_obj,
                   prefix_str>>

\* the machine after the timestamp part of a decoder has ended as t
TimesEnd(t) ==
    /\ obj' = t.obj
    /\ IF t.exc # "none" THEN Raised(t.exc)
       ELSE pc' = "base_init" /\ UNCHANGED exc

\* a decoder: the canonical timestamps
DecoderTimes ==
    /\ pc = "times"
    /\ TimesEnd(TimesOf(rt, obj))
    /\ stages' = Append(stages, "times")
    /\ UNCHANGED <<entry, todo, bundled_objs, raw, rt, flat, calls,
                   result_obj, prefix_str>>

\* the machine after the step of a decoder that ends in state s
DecoderStep(s, next) ==
    /\ obj' = s.obj
    /\ calls' = s.calls
    /\ IF s.exc # "none" THEN Raised(s.exc)
       ELSE pc' = next /\ UNCHANGED exc

\* a decoder: _base_init(obj)
DecoderBaseInit ==
    /\ pc = "base_init"
    /\ DecoderStep(Exec([DState(obj) EXCEPT !.calls = calls], _base_init),
                   IF rt \in WithContained THEN "contained" ELSE "shapes")
    /\ stages' = Append(stages, "base_init")
    /\ UNCHANGED <<entry, todo, bundled_objs, raw, rt, flat, result_obj,
                   prefix_str>>

\* a decoder: _contained_med_resource_init(obj)
DecoderContained ==
    /\ pc = "contained"
    /\ DecoderStep(Exec([DState(obj) EXCEPT !.calls = calls],
                        _contained_med_resource_init), "shapes")
    /\ stages' = Append(stages, "contained")
    /\ UNCHANGED <<entry, todo, bundled_objs, raw, rt, flat, result_obj,
                   prefix_str>>

\* a decoder: the list shapes of the resource, to the return statement
DecoderShapes ==
    /\ pc = "shapes"
    /\ DecoderStep(Exec([DState(obj) EXCEPT !.calls = calls], ShapesOf(rt)),
                   "return")
    /\ stages' = Append(stages, "shapes")
    /\ UNCHANGED <<entry, todo, bundled_objs, raw, rt, flat, result_obj,
                   prefix_str>>

\* (variant: every result is kept, None included)
KeepAll(objs, result) == Append(objs, result)

\* (variant: the result is put in front)
KeepInFront(objs, result) ==
    IF result # None THEN <<result>> \o objs ELSE objs

\* if result is not None: bundled_objs.append(result)
Keep(objs, result) == IF result # None THEN Append(objs, result) ELSE objs

\* the decoder returns; _process_resource returns the result to the loop of
\* _decode_bundle or to the command line; decode_top_level_obj returns the
\* decoded patient
ProcessReturn ==
    /\ pc = "return"
    /\ LET result == IF rt = "" THEN None ELSE Map(obj) IN
       IF entry.fn = "_process_resource"
       THEN Returned(result) /\ UNCHANGED bundled_objs
       ELSE IF entry.arg.m[KEY_RESULT_TYPE].s[1] = STR_PATIENT
       THEN Returned(result) /\ UNCHANGED bundled_objs
       ELSE /\ bundled_objs' = Keep(bundled_objs, result)
            /\ pc' = "loop"
            /\ UNCHANGED result_obj
    /\ UNCHANGED <<entry, todo, raw, rt, flat, obj, calls, stages, exc,
                   prefix_str>>

Next ==
    \/ SetListLength
    \/ ConvertDatetimes
    \/ decode_top_level_obj
    \/ _decode_bundle
    \/ BundleLoop
    \/ Main
    \/ ProcessFlatten
    \/ ProcessConvert
    \/ ProcessDispatch
    \/ PatientFlatten
    \/ DecoderTimes
    \/ DecoderBaseInit
    \/ DecoderContained
    \/ DecoderShapes
    \/ ProcessReturn

Spec == Init /\ [][Next]_vars

(***************************************************************************)
(* Properties.                                                             *)
(***************************************************************************)
DirectCall == entry.fn = "_set_list_length"

BundleCall ==
    /\ entry.fn = "decode_top_level_obj"
    /\ entry.arg.t = "obj"
    /\ KEY_RESULT_TYPE \in DOMAIN entry.arg.m
    /\ KEY_RESULT \in DOMAIN entry.arg.m
    /\ entry.arg.m[KEY_RESULT_TYPE].s[1] \in {STR_BUNDLE2, STR_BUNDLE3}
    /\ entry.arg.m[KEY_RESULT].t = "json"
    /\ entry.arg.m[KEY_RESULT].ok
    /\ entry.arg.m[KEY_RESULT].v.t = "list"

\* the records of the bundle being decoded
BundleList == entry.arg.m[KEY_RESULT].v.l

\* the indexes i such that key k of d reads <p>_<i>..., p taken literally
LiteralIndexes(d, p) ==
    {ToInt(DigitRun(k, Len(p) + 2)) :
        k \in {j \in DOMAIN d : /\ Len(j) >= Len(p) + 2
                                /\ SubSeq(j, 1, Len(p)) = p
                                /\ j[Len(p) + 1] = "_"
                                /\ IsDigit(j[Len(p) + 2])}}

\* the indexes the search pattern built from p finds in the keys of d
PatternIndexes(d, p) ==
    {MatchNum(CompilePrefix(p, <<>>, FALSE).atoms, k) : k \in DOMAIN d} \ {-1}

\* C1: after a call of _set_list_length with a prefix the decoders use, the
\* call has returned 0 and left the mapping as it was if no key reads
\* <prefix>_<digits>, and otherwise has returned 1 + the largest index of
\* the keys that do, and stored it under 'len_' + prefix.
C1_PrefixDigitsContract ==
    (DirectCall /\ pc = "again") =>
        LET idx == LiteralIndexes(flat, prefix_str) IN
        IF idx = {} THEN calls[1].ret = 0 /\ obj = flat
        ELSE /\ calls[1].ret = 1 + Max(idx)
             /\ obj = Put(flat, <<"len", "_">> \o prefix_str,
                          Num(1 + Max(idx)))

\* C2: a second call of _set_list_length with the same prefix returns what
\* the first call returned and leaves the mapping as the first call left it.
C2_Idempotent ==
    (DirectCall /\ pc = "done") =>
        /\ calls[2].ret = calls[1].ret
        /\ obj = flat

C2_Witness ==
    /\ DirectCall /\ pc = "done"
    /\ calls[1].ret >= 2
    /\ <<"len", "_">> \o prefix_str \in DOMAIN obj

\* the indexes are contiguous from 0
Contiguous(idx) == \A i \in idx : \A j \in 0..i : j \in idx

C4_Total ==
    /\ exc # "re.error"
    /\ (DirectCall /\ pc # "call" /\ PatternIndexes(flat, prefix_str) = {})
           => calls[Len(calls)].ret = 0
    /\ ~DirectCall =>
           \A c \in Range(calls) :
               PatternIndexes(obj, c.prefix) = {} => c.ret = 0

C4_Witness ==
    /\ pc = "return" /\ rt = "Patient"
    /\ \E c \in Range(calls) :
          c.prefix = T(<<"name", "0", "given", "0">>) /\ c.ret = 0
    /\ \E c \in Range(calls) :
          c.prefix = T(<<"contact", "0", "relationship", "0", "coding">>)
          /\ c.ret = 1

\* the record has none of the seven supported resource types
Unsupported(x) ==
    /\ x.t = "obj"
    /\ \/ _STR_RESOURCE_TYPE \notin DOMAIN x.m
       \/ x.m[_STR_RESOURCE_TYPE] \notin {Str(<<r>>) : r \in ResourceTypes}

\* the number of elements of seq that satisfy Test
Count(seq, Test(_)) == Cardinality({i \in 1..Len(seq) : Test(seq[i])})

\* the records of the bundle the loop has been through
Visited == SubSeq(BundleList, 1, Len(BundleList) - Len(todo))

\* C5 as stated: a record of no supported resource type, or of none, never
\* ends the run with an exception; _process_resource returns None for it,
\* and a bundle has no element for it.
C5_UnsupportedNeverRaises ==
    Unsupported(raw) =>
        /\ exc = "none"
        /\ pc = "return" => rt = ""
        /\ (entry.fn = "_process_resource" /\ pc = "done") => result_obj = None

\* C5, amended: for a record of no supported resource type, or of none,
\* the only exceptions are those of the conversion of its datetime strings,
\* which runs before the resource type is read; when the conversion
\* completes, _process_resource returns None for the record, and the loop
\* of _decode_bundle adds no element for it: the list built has as many
\* elements as there are supported records among those visited.
C5_UnsupportedIsSkipped ==
    /\ Unsupported(raw) =>
          /\ exc # "none" => exc \in _convert_datetimes(flatten(raw)).excs
          /\ pc = "return" => rt = ""
          /\ (entry.fn = "_process_resource" /\ pc = "done")
                => result_obj = None
    /\ (BundleCall /\ pc = "loop") =>
          Len(bundled_objs) = Count(Visited, LAMBDA x : ~Unsupported(x))
    /\ (BundleCall /\ pc = "done") =>
          Len(result_obj.l) = Count(BundleList, LAMBDA x : ~Unsupported(x))

C5_Witness ==
    /\ BundleCall /\ pc = "done"
    /\ Len(BundleList) = 2
    /\ Unsupported(BundleList[1])
    /\ _STR_RESOURCE_TYPE \in DOMAIN BundleList[1].m
    /\ ~Unsupported(BundleList[2])
    /\ Len(result_obj.l) = 1

\* the results of _process_resource for the records of seq, None left out
RECURSIVE Decoded(_)
Decoded(seq) ==
    IF seq = <<>> THEN <<>>
    ELSE LET r == _process_resource(Head(seq)).result IN
         (IF r = None THEN <<>> ELSE <<r>>) \o Decoded(Tail(seq))

\* C6: decode_top_level_obj returns, for a bundle, the list of the results
\* of _process_resource for its records, in the order of the records,
\* without those that are None; the list being built is that of the
\* records visited so far.
C6_BundleInOrder ==
    /\ (BundleCall /\ pc = "loop") => bundled_objs = Decoded(Visited)
    /\ (BundleCall /\ pc = "done") => result_obj = List(Decoded(BundleList))

C6_Witness ==
    /\ BundleCall /\ pc = "done"
    /\ Len(BundleList) = 2
    /\ Len(result_obj.l) = 2
    /\ result_obj.l[1] # result_obj.l[2]
    /\ result_obj.l[1] = _process_resource(BundleList[1]).result

\* the positions of a decoder after its timestamp part
AfterTimes == {"base_init", "contained", "shapes", "return"}

Has(d, k) == k \in DOMAIN d

\* d[k] is the value v
Holds(d, k, v) == k \in DOMAIN d /\ d[k] = v

\* the period found under k in d has the entry e
PeriodHas(d, k, e) == Has(d, k) /\ d[k].t = "map" /\ e \in DOMAIN d[k].m

\* C7: once the Condition decoder has set the timestamps, date_time is the
\* start of onsetPeriod if the record has an onsetPeriod, and else is
\* onsetDateTime if the record has one; end_date_time is the end of
\* abatementPeriod if the record has one, and else abatementDateTime.
C7_ConditionPeriodWins ==
    (rt = "Condition" /\ pc \in AfterTimes) =>
        /\ Has(flat, <<"onsetPeriod">>) =>
              Holds(obj, _KEY_DATE_TIME, flat[<<"onsetPeriod">>].m[_KEY_START])
        /\ (Has(flat, <<"onsetDateTime">>) /\ ~Has(flat, <<"onsetPeriod">>)) =>
              Holds(obj, _KEY_DATE_TIME, flat[<<"onsetDateTime">>])
        /\ Has(flat, <<"abatementPeriod">>) =>
              Holds(obj, _KEY_END_DATE_TIME,
                    flat[<<"abatementPeriod">>].m[_KEY_END])
        /\ (Has(flat, <<"abatementDateTime">>)
               /\ ~Has(flat, <<"abatementPeriod">>)) =>
              Holds(obj, _KEY_END_DATE_TIME, flat[<<"abatementDateTime">>])

C7_Witness ==
    /\ rt = "Condition" /\ pc = "return"
    /\ Has(flat, <<"onsetDateTime">>) /\ Has(flat, <<"onsetPeriod">>)
    /\ Has(flat, <<"abatementDateTime">>) /\ Has(flat, <<"abatementPeriod">>)
    /\ obj[_KEY_DATE_TIME] = S_START
    /\ obj[_KEY_DATE_TIME] # flat[<<"onsetDateTime">>]
    /\ obj[_KEY_END_DATE_TIME] = S_END

\* the step of the current decode that was executed last
LastStage == IF stages = <<>> THEN "" ELSE stages[Len(stages)]

\* the period field of the Observation and MedicationAdministration records
EffectivePeriod ==
    IF rt = "Observation" THEN <<"effectivePeriod">>
    ELSE <<"effectiveTimePeriod">>

EffectiveDateTime ==
    IF rt = "Observation" THEN <<"effectiveDateTime">>
    ELSE <<"effectiveTimeDateTime">>

\* C8: when the Observation or MedicationAdministration decoder has
\* executed its timestamp part on a record whose period has an end, no
\* exception was raised and end_date_time is that end; date_time is the
\* start of the period if it has one, and else the direct field.
C8_EffectivePeriodEnd ==
    (/\ rt \in {"Observation", "MedicationAdministration"}
     /\ LastStage = "times"
     /\ PeriodHas(flat, EffectivePeriod, _KEY_END)) =>
        /\ exc = "none"
        /\ Holds(obj, _KEY_END_DATE_TIME, flat[EffectivePeriod].m[_KEY_END])
        /\ PeriodHas(flat, EffectivePeriod, _KEY_START) =>
              Holds(obj, _KEY_DATE_TIME, flat[EffectivePeriod].m[_KEY_START])
        /\ (~PeriodHas(flat, EffectivePeriod, _KEY_START)
               /\ Has(flat, EffectiveDateTime)) =>
              Holds(obj, _KEY_DATE_TIME, flat[EffectiveDateTime])

\* k is a key of both mappings or of none
SameAsBefore(k) == Has(obj, k) <=> Has(flat, k)

\* C9: the timestamp part of the Procedure decoder never raises; after it
\* date_time is the start of performedPeriod if the period has one, else
\* performedDateTime if the record has one, else as it was; end_date_time
\* is the end of performedPeriod if the period has one, else as it was.
C9_ProcedureGuarded ==
    /\ (rt = "Procedure" /\ LastStage = "times") => exc = "none"
    /\ (rt = "Procedure" /\ pc \in AfterTimes) =>
          /\ IF PeriodHas(flat, <<"performedPeriod">>, _KEY_START)
             THEN Holds(obj, _KEY_DATE_TIME,
                        flat[<<"performedPeriod">>].m[_KEY_START])
             ELSE IF Has(flat, <<"performedDateTime">>)
             THEN Holds(obj, _KEY_DATE_TIME, flat[<<"performedDateTime">>])
             ELSE SameAsBefore(_KEY_DATE_TIME)
          /\ IF PeriodHas(flat, <<"performedPeriod">>, _KEY_END)
             THEN Holds(obj, _KEY_END_DATE_TIME,
                        flat[<<"performedPeriod">>].m[_KEY_END])
             ELSE SameAsBefore(_KEY_END_DATE_TIME)

C9_Witness ==
    /\ rt = "Procedure" /\ pc = "return"
    /\ Has(flat, <<"performedDateTime">>)
    /\ Has(flat, <<"performedPeriod">>)
    /\ ~PeriodHas(flat, <<"performedPeriod">>, _KEY_START)
    /\ obj[_KEY_DATE_TIME] = flat[<<"performedDateTime">>]
    /\ obj[_KEY_END_DATE_TIME] = S_END

\* the record has none of the timestamp fields of its resource type
NoTimeField ==
    \A i \in 1..4 : TimeKeys(rt)[i] = <<>> \/ ~Has(flat, TimeKeys(rt)[i])

\* C10: after the timestamp part of a decoder (for Patient, which has none,
\* after its flattening), MedicationOrder has date_time = dateWritten and
\* end_date_time = dateEnded, each only if the record has the field;
\* MedicationStatement has date_time = dateAsserted if the record has it,
\* and no end_date_time; Patient has neither key; and no decoder adds a
\* canonical key to a record that has none of its timestamp fields.
C10_DirectFields ==
    (pc \in AfterTimes /\ rt # "") =>
        /\ rt = "MedicationOrder" =>
              /\ IF Has(flat, <<"dateWritten">>)
                 THEN Holds(obj, _KEY_DATE_TIME, flat[<<"dateWritten">>])
                 ELSE SameAsBefore(_KEY_DATE_TIME)
              /\ IF Has(flat, <<"dateEnded">>)
                 THEN Holds(obj, _KEY_END_DATE_TIME, flat[<<"dateEnded">>])
                 ELSE SameAsBefore(_KEY_END_DATE_TIME)
        /\ rt = "MedicationStatement" =>
              /\ IF Has(flat, <<"dateAsserted">>)
                 THEN Holds(obj, _KEY_DATE_TIME, flat[<<"dateAsserted">>])
                 ELSE SameAsBefore(_KEY_DATE_TIME)
              /\ SameAsBefore(_KEY_END_DATE_TIME)
        /\ rt = "Patient" =>
              SameAsBefore(_KEY_DATE_TIME) /\ SameAsBefore(_KEY_END_DATE_TIME)
        /\ (rt # "Patient" /\ NoTimeField) =>
              SameAsBefore(_KEY_DATE_TIME) /\ SameAsBefore(_KEY_END_DATE_TIME)

C10_Witness ==
    /\ rt = "MedicationOrder" /\ pc = "return"
    /\ Has(flat, <<"dateWritten">>) /\ Has(flat, <<"dateEnded">>)
    /\ obj[_KEY_DATE_TIME] = flat[<<"dateWritten">>]
    /\ obj[_KEY_END_DATE_TIME] = flat[<<"dateEnded">>]
    /\ obj[_KEY_DATE_TIME] # obj[_KEY_END_DATE_TIME]
    /\ ~Has(flat, _KEY_DATE_TIME)

(***************************************************************************)
(* Properties of _convert_datetimes, read in the states in which a direct  *)
(* call has ended: flat is the mapping before the call, obj the mapping    *)
(* after it.                                                               *)
(***************************************************************************)
ConvertCall == entry.fn = "_convert_datetimes"

ConvertEnded == ConvertCall /\ pc \in {"done", "raised"}

ConvertReturned == ConvertCall /\ pc = "done"

\* the keys whose value matches the pattern, those with no time part, those
\* with one
MatchingKeys == {k \in DOMAIN flat : Converts(flat[k])}

DateOnlyKeys == {k \in MatchingKeys : Len(flat[k].s) = 10}

InstantKeys == MatchingKeys \ DateOnlyKeys

YearOf(s) == ToInt(SubSeq(s, 1, 4))
MonthOf(s) == ToInt(SubSeq(s, 6, 7))
DayOf(s) == ToInt(SubSeq(s, 9, 10))

\* a value with no time component: a datetime with no tzinfo, at midnight
DateOnly(x) ==
    /\ x.t = "dt" /\ ~x.tz
    /\ x.hour = 0 /\ x.minute = 0 /\ x.second = 0 /\ x.microsecond = 0

\* x is the date-only value of the date written in s
IsDateOf(x, s) ==
    /\ DateOnly(x)
    /\ x.year = YearOf(s) /\ x.month = MonthOf(s) /\ x.day = DayOf(s)

\* s names a day of the calendar
NamesDate(s) ==
    /\ YearOf(s) \in 1..9999 /\ MonthOf(s) \in 1..12
    /\ DayOf(s) \in 1..DaysInMonth(YearOf(s), MonthOf(s))

\* C11, as stated: every string that matches YYYY-MM-DD with no time part is
\* replaced by the date-only value of its year, month and day, and a
\* converted value is date-only exactly when its string had no time part.
C11_DateOnly ==
    ConvertEnded =>
        /\ \A k \in DateOnlyKeys : pc = "done" /\ IsDateOf(obj[k], flat[k].s)
        /\ pc = "done" =>
              \A k \in MatchingKeys : DateOnly(obj[k]) <=> k \in DateOnlyKeys

\* C11, amended: when the call returns, every string that matches YYYY-MM-DD
\* with no time part has been replaced by the date-only value of its year,
\* month and day, and a converted value is date-only exactly when its string
\* had no time part; a call on a mapping whose matching strings all lack a
\* time part raises only ValueError, and only when one of them names no day
\* of the calendar; and a string that names no day of the calendar makes the
\* call raise and is not replaced.
C11_DateOnlyOfValidDate ==
    ConvertEnded =>
        /\ pc = "done" =>
              /\ \A k \in DateOnlyKeys : IsDateOf(obj[k], flat[k].s)
              /\ \A k \in MatchingKeys : DateOnly(obj[k]) <=> k \in DateOnlyKeys
        /\ (pc = "raised" /\ InstantKeys = {}) =>
              /\ exc = "ValueError"
              /\ \E k \in DateOnlyKeys : ~NamesDate(flat[k].s)
        /\ \A k \in DateOnlyKeys :
              ~NamesDate(flat[k].s) => pc = "raised" /\ obj[k] = flat[k]

\* '2020-03-14' has become the date 2020, 3, 14 next to a string with a time
\* part that has become a value with a tzinfo
C11_Witness ==
    /\ ConvertReturned
    /\ flat[<<"when">>] = Str(DateStr(2020, 3, 14))
    /\ obj[<<"when">>].t = "dt" /\ ~obj[<<"when">>].tz
    /\ obj[<<"when">>].year = 2020 /\ obj[<<"when">>].month = 3
    /\ obj[<<"when">>].day = 14
    /\ <<"other">> \in DOMAIN obj /\ obj[<<"other">>] = Num(7)

RECURSIVE Pow10(_)
Pow10(n) == IF n = 0 THEN 1 ELSE 10 * Pow10(n - 1)

\* the digits that follow the '.' of the time part of s, <<>> without a '.'
FractionDigits(s) ==
    IF Len(s) >= 21 /\ s[20] = "." THEN DigitRun(SubSeq(s, 21, Len(s)), 1)
    ELSE <<>>

\* the fraction of a second that the digits ds denote, in microseconds
MicrosecondsOf(ds) == (ToInt(ds) * 1000000) \div Pow10(Len(ds))

\* C12: '2020-03-14T08:30:00.500-05:00' becomes the instant 08:30:00 with
\* microsecond 500000 and a UTC offset of -5 hours, and a fraction of k digits
\* becomes that fraction of a second in microseconds.
C12_FractionOfSecond ==
    ConvertReturned =>
        /\ flat[<<"when">>] = S_INSTANT =>
              /\ obj[<<"when">>].t = "dt"
              /\ obj[<<"when">>].hour = 8 /\ obj[<<"when">>].minute = 30
              /\ obj[<<"when">>].second = 0
              /\ obj[<<"when">>].microsecond = 500000
              /\ obj[<<"when">>].tz /\ obj[<<"when">>].offset = -300
        /\ \A k \in InstantKeys :
              (entry.finder = None /\ FractionDigits(flat[k].s) # <<>>) =>
                  obj[k].microsecond = MicrosecondsOf(FractionDigits(flat[k].s))

\* the keys of the strings with a fraction of a second, in the calls in which
\* time_finder answers as modelled
FractionKeys ==
    {k \in InstantKeys : entry.finder = None /\ FractionDigits(flat[k].s) # <<>>}

\* C13: for every fraction of a second the microsecond is in 0..999999, is the
\* fraction reduced modulo 999999, is the fraction itself when the fraction is
\* in 0..999999, and the string is not rejected.
C13_MicrosecondPreserved ==
    ConvertEnded =>
        \A k \in FractionKeys :
            /\ pc = "done"
            /\ obj[k].t = "dt"
            /\ obj[k].microsecond \in 0..999999
            /\ obj[k].microsecond = ToInt(FractionDigits(flat[k].s)) % 999999
            /\ ToInt(FractionDigits(flat[k].s)) \in 0..999999 =>
                  obj[k].microsecond = ToInt(FractionDigits(flat[k].s))

\* the calls in which time_finder answered with the one decomposition that
\* came with the call, and the call returned
FoundOne ==
    /\ ConvertReturned
    /\ entry.finder # None
    /\ Len(entry.finder.l) = 1

\* the characters of the time part of s from the first sign or 'Z' on
OffsetPart(s) ==
    IF \E i \in 20..Len(s) : s[i] \in {"+", "-", "Z"}
    THEN SubSeq(s, CHOOSE i \in 20..Len(s) :
                      /\ s[i] \in {"+", "-", "Z"}
                      /\ \A j \in 20..(i - 1) : s[j] \notin {"+", "-", "Z"},
                Len(s))
    ELSE <<>>

\* C14: an instant built from a decomposition with no offset sign has an
\* offset that is not negative; with no offset hours its offset is less than
\* an hour; with no offset minutes its offset is a whole number of hours;
\* and with no offset at all, or from a string with none, its offset is zero.
C14_OffsetDefaults ==
    /\ FoundOne =>
          /\ obj[<<"when">>].t = "dt" /\ obj[<<"when">>].tz
          /\ entry.finder.l[1].gmt_delta_sign = None =>
                obj[<<"when">>].offset >= 0
          /\ entry.finder.l[1].gmt_delta_hours = None =>
                obj[<<"when">>].offset \in 0..59
          /\ entry.finder.l[1].gmt_delta_minutes = None =>
                obj[<<"when">>].offset % 60 = 0
          /\ (entry.finder.l[1].gmt_delta_sign = None
              /\ entry.finder.l[1].gmt_delta_hours # None
              /\ entry.finder.l[1].gmt_delta_minutes # None) =>
                obj[<<"when">>].offset =
                    60 * entry.finder.l[1].gmt_delta_hours.n
                    + entry.finder.l[1].gmt_delta_minutes.n
          /\ (entry.finder.l[1].gmt_delta_hours = None
              /\ entry.finder.l[1].gmt_delta_minutes = None) =>
                obj[<<"when">>].offset = 0
    /\ (ConvertReturned /\ entry.finder = None) =>
          \A k \in InstantKeys :
              /\ OffsetPart(flat[k].s) = <<>> =>
                    obj[k].tz /\ obj[k].offset = 0
              /\ OffsetPart(flat[k].s) = <<"+", "0", "5">> =>
                    obj[k].tz /\ obj[k].offset = 300

\* a decomposition with offset hours and neither sign nor minutes has given
\* the offset +05:00
C14_Witness ==
    /\ FoundOne
    /\ entry.finder.l[1].gmt_delta_sign = None
    /\ entry.finder.l[1].gmt_delta_hours = Num(5)
    /\ entry.finder.l[1].gmt_delta_minutes = None
    /\ obj[<<"when">>].t = "dt" /\ obj[<<"when">>].offset = 300

\* the values of the calls that match the pattern in no way: those that are
\* no strings, and the strings 'Ann', '2020-03-14T08:30', '2020-3-14',
\* '2020-03-14T08:30:00 UTC', 'x2020-03-14', '2020-03-14x'
NotTimestamps == NonStrings \cup OtherStrings \cup {Str(<<"A", "n", "n">>)}

\* C15: a call of _convert_datetimes neither adds nor removes a key, whether
\* it returns or raises; it leaves every value that is no string, and every
\* string that does not match the whole pattern, as it was; and the values
\* it changes are strings that have become datetime objects.
C15_OthersUntouched ==
    ConvertEnded =>
        /\ DOMAIN obj = DOMAIN flat
        /\ \A k \in DOMAIN flat :
              /\ flat[k] \in NotTimestamps => obj[k] = flat[k]
              /\ flat[k].t # "str" => obj[k] = flat[k]
              /\ obj[k] # flat[k] =>
                    /\ flat[k].t = "str" /\ obj[k].t = "dt"
                    /\ RegexDatetimeMatch(flat[k].s)

\* a call has returned with '2020-03-14x' under 'when' as it was, next to a
\* date that was converted
C15_Witness ==
    /\ ConvertReturned
    /\ flat[<<"when">>] = Str(DateStr(2020, 3, 14) \o <<"x">>)
    /\ obj[<<"when">>] = flat[<<"when">>]
    /\ <<"other">> \in DOMAIN obj
    /\ flat[<<"other">>] = S_DIRECT /\ obj[<<"other">>].t = "dt"

\* the keys of the strings with a time part for which time_finder does not
\* answer with exactly one decomposition
NotOneFound ==
    {k \in InstantKeys :
        IF entry.finder = None
        THEN Len(time_finder_run(TimePart(flat[k].s))) # 1
        ELSE Len(entry.finder.l) # 1}

\* a call _process_resource(obj) on a record whose 'issued' is
\* '2020-03-14T25:00:00', in which time_finder finds no time
RecordWithBadTime ==
    /\ entry.fn = "_process_resource"
    /\ entry.arg.t = "obj"
    /\ <<"issued">> \in DOMAIN entry.arg.m
    /\ entry.arg.m[<<"issued">>] = S_BAD_TIME

\* C16: when time_finder answers with no decomposition, or with two, for a
\* string that matches, the call of _convert_datetimes raises AssertionError
\* and leaves the string as it was, and the decode of a record with such a
\* string raises it too: nothing is returned for the record.
C16_NotOneResultAborts ==
    /\ ConvertEnded =>
          \A k \in NotOneFound :
              /\ pc = "raised" /\ exc = "AssertionError"
              /\ obj[k] = flat[k]
              /\ result_obj = None
    /\ (RecordWithBadTime /\ pc \in {"done", "raised", "return"}) =>
          /\ pc = "raised" /\ exc = "AssertionError"
          /\ result_obj = None

\* time_finder has answered with two decompositions and the call has raised
C16_Witness ==
    /\ ConvertEnded
    /\ entry.finder # None /\ Len(entry.finder.l) = 2
    /\ NotOneFound = {<<"when">>}
    /\ pc = "raised" /\ exc = "AssertionError"

\* a call decode_top_level_obj(obj) on an envelope with both keys whose
\* payload is a string that json.loads cannot parse
UnparsablePayload ==
    /\ entry.fn = "decode_top_level_obj"
    /\ entry.arg.t = "obj"
    /\ KEY_RESULT_TYPE \in DOMAIN entry.arg.m
    /\ KEY_RESULT \in DOMAIN entry.arg.m
    /\ entry.arg.m[KEY_RESULT_TYPE].s[1] \in {STR_PATIENT, STR_BUNDLE2, STR_BUNDLE3}
    /\ entry.arg.m[KEY_RESULT] = BadJson

\* C17: a call of decode_top_level_obj on an envelope of a bundle or of a
\* Patient whose payload is a string that cannot be parsed does not raise: it
\* returns the empty list.
C17_UnparsableYieldsEmpty ==
    (UnparsablePayload /\ pc \in {"done", "raised"}) =>
        pc = "done" /\ result_obj = List(<<>>)

\* a call decode_top_level_obj(obj) on an envelope of result type 'Patient'
\* whose payload is a record, or a string that parses to one
PatientCall ==
    /\ entry.fn = "decode_top_level_obj"
    /\ entry.arg.t = "obj"
    /\ KEY_RESULT_TYPE \in DOMAIN entry.arg.m
    /\ KEY_RESULT \in DOMAIN entry.arg.m
    /\ entry.arg.m[KEY_RESULT_TYPE].s[1] = STR_PATIENT
    /\ Parsed(entry.arg.m[KEY_RESULT]).t = "obj"

\* the names of the Patient record of the call
NamesOfPatient ==
    IF <<"name">> \in DOMAIN Parsed(entry.arg.m[KEY_RESULT]).m
    THEN Parsed(entry.arg.m[KEY_RESULT]).m[<<"name">>].l
    ELSE <<>>

NameParts == {<<"family">>, <<"given">>, <<"prefix">>, <<"suffix">>}

\* the key 'len_name_<i>_<part>'
LenNamePart(i, part) ==
    <<"len", "_">> \o Format(T(<<"name", "{0}", "{1}">>), <<I(i), part>>)

\* C18: in the decoded Patient of a record with n >= 1 names len_name is n,
\* and with no name there is no len_name; for the name of index i and each
\* part among family, given, prefix and suffix, len_name_<i>_<part> is the
\* number of elements of the part if the name has the part, and the key is
\* missing if it has not.
C18_NamePartLengths ==
    (PatientCall /\ pc \in {"return", "done"}) =>
        /\ IF Len(NamesOfPatient) >= 1
           THEN Holds(obj, <<"len", "_", "name">>, Num(Len(NamesOfPatient)))
           ELSE ~Has(obj, <<"len", "_", "name">>)
        /\ \A i \in 1..Len(NamesOfPatient) : \A part \in NameParts :
              IF part \in DOMAIN NamesOfPatient[i].m
              THEN Holds(obj, LenNamePart(i - 1, part),
                         Num(Len(NamesOfPatient[i].m[part].l)))
              ELSE ~Has(obj, LenNamePart(i - 1, part))

\* the Patient whose one name has the given names 'Ann' and 'Marie' has been
\* decoded: len_name = 1, len_name_0_given = 2, and no len_name_0_family
C18_Witness ==
    /\ PatientCall /\ pc = "done"
    /\ NamesOfPatient = <<HumanName(0, 2, 0)>>
    /\ result_obj.t = "map"
    /\ result_obj.m[<<"len", "_", "name">>] = Num(1)
    /\ result_obj.m[T(<<"len", "name", "0", "given">>)] = Num(2)
    /\ result_obj.m[T(<<"name", "0", "given", "1">>)] = Str(<<"Marie">>)
    /\ T(<<"len", "name", "0", "family">>) \notin DOMAIN result_obj.m

\* a call decode_top_level_obj(obj) on a dict
EnvelopeCall == entry.fn = "decode_top_level_obj" /\ entry.arg.t = "obj"

\* the envelope has the result type and the payload
HasBothKeys ==
    /\ KEY_RESULT_TYPE \in DOMAIN entry.arg.m
    /\ KEY_RESULT \in DOMAIN entry.arg.m

\* what the Patient decoder makes of the payload x when nothing raises
PatientShape(x) == Exec(DState(PatientHead(x).obj), Statements("Patient")).obj

\* C19: decode_top_level_obj returns, for the result type 'Patient', what the
\* Patient decoder makes of the payload, and only the Patient decoder runs;
\* it returns None, without decoding, for a result type that is neither
\* 'Patient' nor a bundle cursor, and for an envelope without 'resultType' or
\* without 'result'.
C19_EnvelopeDispatch ==
    (EnvelopeCall /\ pc # "call") =>
        /\ (HasBothKeys /\ entry.arg.m[KEY_RESULT_TYPE].s[1] = STR_PATIENT) =>
              /\ rt = "Patient"
              /\ raw = entry.arg.m[KEY_RESULT]
              /\ \A i \in 1..Len(stages) :
                    stages[i] \in {"patient_flatten_convert", "base_init",
                                   "shapes"}
              /\ pc = "done" =>
                    /\ result_obj = Map(PatientShape(entry.arg.m[KEY_RESULT]))
                    /\ stages = <<"patient_flatten_convert", "base_init",
                                  "shapes">>
        /\ (HasBothKeys
            /\ entry.arg.m[KEY_RESULT_TYPE].s[1]
                  \notin {STR_PATIENT, STR_BUNDLE2, STR_BUNDLE3}) =>
              pc = "done" /\ result_obj = None /\ stages = <<>>
        /\ ~HasBothKeys =>
              pc = "done" /\ result_obj = None /\ stages = <<>>

\* a Patient with two names has been decoded from its envelope
C19_Witness ==
    /\ PatientCall /\ pc = "done"
    /\ result_obj.t = "map"
    /\ Holds(result_obj.m, <<"len", "_", "name">>, Num(2))
    /\ Holds(result_obj.m, _STR_RESOURCE_TYPE, Str(<<"Patient">>))

\* the records of the bundle whose decode raises
FailingRecords ==
    {i \in 1..Len(BundleList) : _process_resource(BundleList[i]).excs # {}}

\* C20: the decode of a bundle with a record whose decode raises returns all
\* the same, with the results of the other records in their order.
C20_FailingRecordIsSkipped ==
    (BundleCall /\ FailingRecords # {} /\ pc \in {"done", "raised"}) =>
        /\ pc = "done"
        /\ result_obj = List(Decoded(BundleList))

(***************************************************************************)
(* The order of the steps of a decoder.                                    *)
(***************************************************************************)
\* the positions inside a decoder, after its head for Patient
InDecoder == {"times", "base_init", "contained", "shapes", "return"}

\* the stages of the decoder that is running: those logged after the
\* dispatch of _process_resource, all of them when decode_top_level_obj has
\* called the Patient decoder
DecoderStages ==
    IF Len(stages) >= 3 /\ stages[3] = "dispatch"
    THEN SubSeq(stages, 4, Len(stages))
    ELSE stages

\* the decoders said to call _contained_med_resource_init
SaidWithContained ==
    {"Procedure", "MedicationStatement", "MedicationOrder",
     "MedicationAdministration"}

\* the steps in the order stated, the first being the timestamps for every
\* type but Patient, which has none
StepsStated(r) ==
    (IF r = "Patient" THEN <<>> ELSE <<"times">>)
    \o <<"base_init">>
    \o (IF r \in SaidWithContained THEN <<"contained">> ELSE <<>>)
    \o <<"shapes">>

\* the steps as the Patient decoder has them: it first builds a new mapping
\* with flatten and converts its datetimes
StepsFound(r) ==
    (IF r = "Patient" THEN <<"patient_flatten_convert">> ELSE <<>>)
    \o StepsStated(r)

\* the steps done are the first steps of seq, and the next is that of pc
StepsAlong(seq) ==
    /\ Len(DecoderStages) <= Len(seq)
    /\ DecoderStages = SubSeq(seq, 1, Len(DecoderStages))
    /\ IF pc = "return" THEN DecoderStages = seq
       ELSE /\ Len(DecoderStages) < Len(seq)
            /\ seq[Len(DecoderStages) + 1] = pc

\* the argument of the decoder: the payload of the envelope, or the mapping
\* _process_resource has flattened
DecoderArgument ==
    IF entry.fn = "decode_top_level_obj" /\ rt = "Patient"
       /\ entry.arg.m[KEY_RESULT_TYPE].s[1] = STR_PATIENT
    THEN Parsed(raw).m
    ELSE flat

Recomputed ==
    {j \in 1..Len(calls) : \E i \in 1..(j - 1) : calls[i].prefix = calls[j].prefix}

\* C22: in the decode of one record no two calls of _set_list_length, those
\* of _base_init and _contained_med_resource_init included, have the same
\* prefix.
C22_OncePerPrefix ==
    (~DirectCall /\ ~ConvertCall) => Recomputed = {}

\* a call of _process_resource, from the command line or from the loop of
\* _decode_bundle, has reached the return of a decoder
ResourceDecoded ==
    /\ entry.fn = "_process_resource" \/ BundleCall
    /\ pc = "return" /\ rt # ""

\* the stages in which a mapping is flattened or its datetimes converted
Normalizing == {"flatten", "convert", "patient_flatten_convert"}

\* C23: when _process_resource has decoded a record of a supported type, the
\* record was flattened once and its datetimes converted once, both before
\* the dispatch, and after the dispatch one decoder worked on that mapping.
C23_NormalizedOnce ==
    ResourceDecoded =>
        /\ Len(stages) > 3
        /\ SubSeq(stages, 1, 3) = <<"flatten", "convert", "dispatch">>
        /\ \A i \in 4..Len(stages) : stages[i] \notin Normalizing
        /\ DecoderStages = StepsStated(rt)

\* the prefix 'reason_{0}_coding', as the MedicationStatement decoder
\* passes it
REASON_TEMPLATE == T(<<"reason", "{0}", "coding">>)

\* the calls of the decode under way with prefix p
CallsWith(p) == {j \in 1..Len(calls) : calls[j].prefix = p}

\* the MedicationStatement decoder has returned
StatementDecoded == rt = "MedicationStatement" /\ pc = "return"

CodingsOf(f, i) ==
    IF LiteralIndexes(flat, Format(T(<<f, "{0}", "coding">>), <<I(i)>>)) = {} THEN 0
    ELSE 1 + Max(LiteralIndexes(flat, Format(T(<<f, "{0}", "coding">>), <<I(i)>>)))

\* C25: the decoded MedicationAdministration has, for each element i of
\* reasonNotGiven and of reasonGiven with m >= 1 codings, the entry
\* len_<field>_<i>_coding = m.
C25_ReasonCodingLengths ==
    (rt = "MedicationAdministration" /\ pc = "return") =>
        \A f \in {"reasonNotGiven", "reasonGiven"} : \A i \in 0..9 :
            CodingsOf(f, i) >= 1 =>
                Holds(obj, Format(T(<<"len", f, "{0}", "coding">>), <<I(i)>>),
                      Num(CodingsOf(f, i)))

(***************************************************************************)
(* _base_init, read in the log of the calls once it has returned.          *)
(***************************************************************************)
AfterBaseInit == pc \in {"contained", "shapes", "return"} /\ rt # ""

ExtensionFieldNames == {"extension", "modifierExtension"}

\* the shapes looked for inside element i of extension and modifierExtension
NestedShapes ==
    {T(<<"valueCodeableConcept", "coding">>), T(<<"valueTiming", "event">>),
     T(<<"valueTiming", "code", "coding">>), T(<<"valueAddress", "line">>),
     T(<<"valueHumanName", "family">>), T(<<"valueHumanName", "given">>),
     T(<<"valueHumanName", "prefix">>), T(<<"valueHumanName", "suffix">>),
     T(<<"valueSignature", "type", "coding">>), <<"extension">>}

\* the key '<f>_<i>_<shape>'
NestedKey(f, i, shape) == <<f, "_">> \o I(i) \o <<"_">> \o shape

\* the key '<f>_<i>_extension_<j>_extension'
DeepKey(f, i, j) ==
    NestedKey(f, i, <<"extension">>) \o <<"_">> \o I(j) \o <<"_", "extension">>

\* C26: once _base_init has returned, its first call was for 'identifier',
\* there was a call for identifier_<i>_type_coding for every identifier
\* index i, one call for each of 'extension' and 'modifierExtension', and for
\* every index i of these a call for each of the ten nested shapes, of which
\* <field>_<i>_extension has its length stored; and there is neither a call
\* nor a len_ entry for <field>_<i>_extension_<j>_extension.
C26_BaseInitShapes ==
    AfterBaseInit =>
        /\ calls # <<>> /\ calls[1].prefix = <<"identifier">>
        /\ \A i \in 0..(calls[1].ret - 1) :
              CallsWith(NestedKey("identifier", i, T(<<"type", "coding">>))) # {}
        /\ \A f \in ExtensionFieldNames :
              /\ Cardinality(CallsWith(<<f>>)) = 1
              /\ \A c \in CallsWith(<<f>>) :
                    /\ calls[c].ret =
                          IF LiteralIndexes(flat, <<f>>) = {} THEN 0
                          ELSE 1 + Max(LiteralIndexes(flat, <<f>>))
                    /\ \A i \in 0..(calls[c].ret - 1) :
                       \A shape \in NestedShapes :
                          Cardinality(CallsWith(NestedKey(f, i, shape))) = 1
              /\ \A i \in 0..9 :
                    LiteralIndexes(flat, NestedKey(f, i, <<"extension">>)) # {} =>
                        Holds(obj,
                              <<"len", "_">> \o NestedKey(f, i, <<"extension">>),
                              Num(1 + Max(LiteralIndexes(
                                     flat, NestedKey(f, i, <<"extension">>)))))
              /\ \A i \in 0..9 : \A j \in 0..9 :
                    /\ CallsWith(DeepKey(f, i, j)) = {}
                    /\ ~Has(obj, <<"len", "_">> \o DeepKey(f, i, j))

\* _base_init has returned for a record whose second modifierExtension has
\* two extensions, each with extensions of its own
C26_Witness ==
    /\ AfterBaseInit
    /\ Holds(obj, T(<<"len", "modifierExtension">>), Num(2))
    /\ Holds(obj, T(<<"len", "modifierExtension", "1", "extension">>), Num(2))
    /\ Holds(obj, T(<<"len", "modifierExtension", "1",
                      "valueCodeableConcept", "coding">>), Num(2))
    /\ Has(flat, T(<<"modifierExtension", "1", "extension", "0",
                     "extension", "1", "url">>))
    /\ ~Has(obj, T(<<"len", "modifierExtension", "1", "extension", "0",
                     "extension">>))

\* k reads 'len_...'
IsLenKey(k) == Len(k) >= 2 /\ k[1] = "len" /\ k[2] = "_"

\* the entries of mapping a that mapping b has not, or has with another value
Changed(a, b) ==
    {k \in DOMAIN a \cup DOMAIN b :
        ~(k \in DOMAIN a /\ k \in DOMAIN b /\ a[k] = b[k])}

WrittenHours(op) == ToInt(SubSeq(op, 2, 3))
WrittenMinutes(op) == IF Len(op) = 6 THEN ToInt(SubSeq(op, 5, 6)) ELSE 0

\* C28: the offset of the instant made from a string whose offset is written
\* -HH:MM is -(HH hours) + (MM minutes), that of one written +HH:MM is
\* HH hours + MM minutes, so that the stored offset is the written one when
\* MM is 00 and is too large by twice MM minutes when the sign is '-' and MM
\* is not 00; the same holds of a decomposition with a '-' sign.
C28_SignOnHoursOnly ==
    /\ (ConvertReturned /\ entry.finder = None) =>
          \A k \in InstantKeys :
              (OffsetPart(flat[k].s) # <<>> /\ OffsetPart(flat[k].s)[1] # "Z") =>
                  obj[k].offset =
                      (IF OffsetPart(flat[k].s)[1] = "-" THEN -60 ELSE 60)
                          * WrittenHours(OffsetPart(flat[k].s))
                      + WrittenMinutes(OffsetPart(flat[k].s))
    /\ (FoundOne /\ entry.finder.l[1].gmt_delta_sign = Str(<<"-">>)
        /\ entry.finder.l[1].gmt_delta_hours # None
        /\ entry.finder.l[1].gmt_delta_minutes # None) =>
          obj[<<"when">>].offset =
              entry.finder.l[1].gmt_delta_minutes.n
              - 60 * entry.finder.l[1].gmt_delta_hours.n

\* the offset of '2020-03-14T08:30:00-05:30' has been stored as -04:30
C28_Witness ==
    /\ ConvertReturned /\ entry.finder = None
    /\ flat[<<"when">>] =
          Str(DateStr(2020, 3, 14) \o <<"T">> \o TimeStr(8, 30, 0)
              \o <<"-", "0", "5", ":", "3", "0">>)
    /\ obj[<<"when">>].t = "dt" /\ obj[<<"when">>].offset = -270

\* the decoder of resource type r has executed its timestamp part, to its
\* end or to an exception
TimesDone(r) == rt = r /\ "times" \in Range(DecoderStages)

\* the record has the period k, a mapping without the entry e
PeriodLacks(k, e) ==
    Has(flat, k) /\ flat[k].t = "map" /\ e \notin DOMAIN flat[k].m

\* C29: the Condition decoder raises KeyError on a record whose onsetPeriod
\* has no start or whose abatementPeriod has no end, whatever onsetDateTime
\* and abatementDateTime are, and nothing is returned for the record; the
\* Procedure decoder does not raise on a performedPeriod without start or
\* without end and keeps date_time from performedDateTime.
C29_ConditionUnguarded ==
    /\ (TimesDone("Condition")
        /\ (PeriodLacks(<<"onsetPeriod">>, _KEY_START)
            \/ PeriodLacks(<<"abatementPeriod">>, _KEY_END))) =>
          /\ pc = "raised" /\ exc = "KeyError"
          /\ result_obj = None
    /\ (TimesDone("Procedure")
        /\ PeriodLacks(<<"performedPeriod">>, _KEY_START)) =>
          /\ exc = "none"
          /\ Has(flat, <<"performedDateTime">>) =>
                Holds(obj, _KEY_DATE_TIME, flat[<<"performedDateTime">>])

\* a Condition with an onsetDateTime and an onsetPeriod without start has
\* made the decoder raise KeyError after date_time was set
C29_Witness ==
    /\ TimesDone("Condition")
    /\ PeriodLacks(<<"onsetPeriod">>, _KEY_START)
    /\ Has(flat, <<"onsetDateTime">>)
    /\ pc = "raised" /\ exc = "KeyError"
    /\ Holds(obj, _KEY_DATE_TIME, flat[<<"onsetDateTime">>])
    /\ result_obj = None

====
